---------------------------- MODULE Spec2Model ----------------------------
(***************************************************************************)
(* Netrunner: the HTTP engine (ParseRequest, Router, Response), the        *)
(* connection pool (ConnPool) and the server of cmd/server/main.go (accept *)
(* loop, one handling goroutine per accepted connection, shutdown).        *)
(*                                                                         *)
(* Byte strings are sequences of symbols.  A symbol is one byte (CR, LF,   *)
(* SP, COLON, the letters of a literal body) or, in request tokens, header *)
(* names and values, an atomic run of bytes holding no CR, LF, SP, COLON.  *)
(***************************************************************************)
EXTENDS Integers, Sequences, FiniteSets, TLC

(***************************** bounds **************************************)
\* connections the listener hands out (one handling goroutine each)
NumConns == 2
\* connections net.Dial can establish for Get (pool harness)
MaxDial == 1
\* capacity given to NewConnPool in the pool harness
PoolCap == 1
\* middleware the router harness registers with Use (length of the list)
MaxMiddleware == 2
\* AddRoute calls the router harness makes
MaxRoutes == 2
\* setter calls the response harness makes before it serializes
MaxCalls == 3

(*************************** program constants *****************************)
ServerMaxConns == 100
OK == 200
BadRequest == 400
StatusRequestTimeout == 408
InternalServerError == 500

CR == "\r"
LF == "\n"
SP == " "
COLON == ":"
CRLF == <<CR, LF>>
CRLFCRLF == <<CR, LF, CR, LF>>
COLONSP == <<COLON, SP>>

(**************************** byte strings *********************************)
\* s[i..j], empty when j < i
Slice(s, i, j) == IF j < i THEN <<>> ELSE SubSeq(s, i, j)

\* sep occurs in s at index i
OccursAt(s, sep, i) ==
    /\ i >= 1
    /\ i + Len(sep) - 1 <= Len(s)
    /\ \A k \in 1..Len(sep) : s[i + k - 1] = sep[k]

\* index of the first occurrence of sep in s, 0 when there is none
IndexOf(s, sep) ==
    IF \E i \in 1..Len(s) : OccursAt(s, sep, i)
    THEN CHOOSE i \in 1..Len(s) :
            /\ OccursAt(s, sep, i)
            /\ \A j \in 1..(i - 1) : ~OccursAt(s, sep, j)
    ELSE 0

\* strings.Contains
Contains(s, sep) == IndexOf(s, sep) /= 0

\* strings.HasPrefix
HasPrefix(s, p) == Len(p) <= Len(s) /\ Slice(s, 1, Len(p)) = p

\* strings.TrimPrefix
TrimPrefix(s, p) == IF HasPrefix(s, p) THEN Slice(s, Len(p) + 1, Len(s)) ELSE s

\* bytes.SplitN(s, sep, 2) / strings.SplitN(s, sep, 2)
SplitN2(s, sep) ==
    LET i == IndexOf(s, sep) IN
    IF i = 0 THEN <<s>>
    ELSE <<Slice(s, 1, i - 1), Slice(s, i + Len(sep), Len(s))>>

\* strings.Split(s, sep), sep not empty
RECURSIVE Split(_, _)
Split(s, sep) ==
    LET i == IndexOf(s, sep) IN
    IF i = 0 THEN <<s>>
    ELSE <<Slice(s, 1, i - 1)>> \o Split(Slice(s, i + Len(sep), Len(s)), sep)

\* fmt.Sprintf("%d", n) for n >= 0: the decimal digits of n
RECURSIVE Itoa(_)
Itoa(n) ==
    LET d == <<"0", "1", "2", "3", "4", "5", "6", "7", "8", "9">> IN
    IF n < 10 THEN <<d[n + 1]>> ELSE Itoa(n \div 10) \o <<d[(n % 10) + 1]>>


(***************************** literal texts *******************************)
NotFoundBody ==
    <<"4", "0", "4", " ", "-", " ", "N", "o", "t", " ", "F", "o", "u", "n",
      "d">>
InternalErrorBody ==
    <<"5", "0", "0", " ", "I", "n", "t", "e", "r", "n", "a", "l", " ", "S",
      "e", "r", "v", "e", "r", " ", "E", "r", "r", "o", "r">>
InvalidRequestMsg ==
    <<"I", "n", "v", "a", "l", "i", "d", " ", "r", "e", "q", "u", "e", "s",
      "t">>
RequestTimeoutMsg ==
    <<"R", "e", "q", "u", "e", "s", "t", " ", "t", "i", "m", "e", "o", "u",
      "t">>
WelcomeBody ==
    <<"W", "e", "l", "c", "o", "m", "e", " ", "t", "o", " ", "N", "e", "t",
      "r", "u", "n", "n", "e", "r", "!">>
HelloBody ==
    <<"H", "e", "l", "l", "o", ",", " ", "N", "e", "t", "r", "u", "n", "n",
      "e", "r", "!">>

(*************************** status registry *******************************)
\* status.Text / http.StatusText: the registry's phrase, "" for an unknown code
StatusText(code) ==
    CASE code = 200 -> "OK"
      [] code = 201 -> "Created"
      [] code = 202 -> "Accepted"
      [] code = 204 -> "No Content"
      [] code = 301 -> "Moved Permanently"
      [] code = 302 -> "Found"
      [] code = 400 -> "Bad Request"
      [] code = 401 -> "Unauthorized"
      [] code = 403 -> "Forbidden"
      [] code = 404 -> "Not Found"
      [] code = 405 -> "Method Not Allowed"
      [] code = 408 -> "Request Timeout"
      [] code = 418 -> "I'm a teapot"
      [] code = 500 -> "Internal Server Error"
      [] code = 501 -> "Not Implemented"
      [] code = 502 -> "Bad Gateway"
      [] code = 503 -> "Service Unavailable"
      [] OTHER -> ""

(****************************** maps ***************************************)
EmptyMap == [x \in {} |-> <<>>]

\* m[k] = v of a Go map
MapPut(m, k, v) == [x \in (DOMAIN m) \cup {k} |-> IF x = k THEN v ELSE m[x]]

(***************************** Response ************************************)
\* NewResponse(): version "HTTP/1.1", zero status, no headers, nil body
NewResponse ==
    [Version |-> "HTTP/1.1", StatusCode |-> 0, StatusText |-> "",
     Headers |-> EmptyMap, Body |-> <<>>]

SetStatus(r, code) == [r EXCEPT !.StatusCode = code]

SetHeader(r, key, value) == [r EXCEPT !.Headers = MapPut(@, key, value)]

\* mutant of SetBody: a Content-Length that is already set is kept
SetBodyKeepLength(r, body) ==
    IF "Content-Length" \in DOMAIN r.Headers
    THEN [r EXCEPT !.Body = body]
    ELSE SetHeader([r EXCEPT !.Body = body], "Content-Length", Itoa(Len(body)))

\* sets the body and overwrites Content-Length with its decimal length
SetBody(r, body) ==
    SetHeader([r EXCEPT !.Body = body], "Content-Length", Itoa(Len(body)))

\* the orders in which `range r.Headers` can visit the keys of the map
Orders(keys) ==
    {o \in [1..Cardinality(keys) -> keys] :
        \A i, j \in DOMAIN o : i /= j => o[i] /= o[j]}

\* the header lines "<key>: <value>\r\n" for the keys order[i..]
RECURSIVE HeaderLines(_, _, _)
HeaderLines(headers, order, i) ==
    IF i > Len(order) THEN <<>>
    ELSE <<order[i], COLON, SP>> \o headers[order[i]] \o CRLF
            \o HeaderLines(headers, order, i + 1)

\* the bytes of a %s of a reason phrase: none for the empty string
Phrase(text) == IF text = "" THEN <<>> ELSE <<text>>

\* fmt.Sprintf("%s %d %s\r\n", version, code, text)
StatusLine(version, code, text) ==
    <<version, SP>> \o Itoa(code) \o <<SP>> \o Phrase(text) \o CRLF

\* Response.Write: the reason phrase is status.Text(r.StatusCode)
Write(r, order) ==
    StatusLine(r.Version, r.StatusCode, StatusText(r.StatusCode))
        \o HeaderLines(r.Headers, order, 1) \o CRLF \o r.Body

\* mutant of FormatResponse: the empty line after the headers is left out
FormatResponseNoBlankLine(r, order) ==
    StatusLine(r.Version, r.StatusCode, r.StatusText)
        \o HeaderLines(r.Headers, order, 1)
        \o (IF Len(r.Body) > 0 THEN r.Body ELSE <<>>)

\* FormatResponse: the reason phrase is the field r.StatusText
FormatResponse(r, order) ==
    StatusLine(r.Version, r.StatusCode, r.StatusText)
        \o HeaderLines(r.Headers, order, 1) \o CRLF
        \o (IF Len(r.Body) > 0 THEN r.Body ELSE <<>>)

NotFoundResponse ==
    SetBody([NewResponse EXCEPT !.StatusCode = 404, !.StatusText = "Not Found"],
            NotFoundBody)

InternalServerErrorResponse ==
    [SetHeader([NewResponse EXCEPT !.StatusCode = InternalServerError,
                                   !.StatusText = StatusText(InternalServerError)],
               "Content-Type", <<"text/plain">>)
       EXCEPT !.Body = InternalErrorBody]

\* NewHTTPError
NewHTTPError(code, message) == [Code |-> code, Message |-> message]

\* the response handleHTTPError composes for an HTTPError
ErrorResponse(err) ==
    SetBody([NewResponse EXCEPT !.StatusCode = err.Code,
                                !.StatusText = StatusText(err.Code)],
            err.Message)

(***************************** ParseRequest ********************************)
NoRequest == [Method |-> <<>>, Path |-> <<>>, Version |-> <<>>,
              Headers |-> EmptyMap, Body |-> <<>>]

\* mutant of HeaderParts: the lines are split at ":" and the space stays
HeaderPartsAtColon(lines) == [i \in 2..Len(lines) |-> SplitN2(lines[i], <<COLON>>)]

\* the header lines lines[i..], each split at its first ": "
HeaderParts(lines) == [i \in 2..Len(lines) |-> SplitN2(lines[i], COLONSP)]

\* mutant of HeaderMap: a name keeps the value of its first occurrence
HeaderMapKeepFirst(lines) ==
    LET hp == HeaderParts(lines)
        names == {hp[i][1] : i \in 2..Len(lines)}
        first(n) == CHOOSE i \in 2..Len(lines) :
                       /\ hp[i][1] = n
                       /\ \A j \in 2..(i - 1) : hp[j][1] /= n
    IN [n \in names |-> hp[first(n)][2]]

\* request.Headers after the loop: each name maps to its last occurrence
HeaderMap(lines) ==
    LET hp == HeaderParts(lines)
        names == {hp[i][1] : i \in 2..Len(lines)}
        last(n) == CHOOSE i \in 2..Len(lines) :
                      /\ hp[i][1] = n
                      /\ \A j \in (i + 1)..Len(lines) : hp[j][1] /= n
    IN [n \in names |-> hp[last(n)][2]]

\* ParseRequest(data): (request, nil) or (nil, error)
ParseRequest(data) ==
    LET parts == SplitN2(data, CRLFCRLF)
        lines == Split(parts[1], CRLF)
        requestLineParts == Split(lines[1], <<SP>>)
        Fail(e) == [err |-> e, req |-> NoRequest]
    IN IF Len(parts) /= 2 THEN Fail("no body separator found")
       ELSE IF Len(lines) < 1 THEN Fail("empty request")
       ELSE IF Len(requestLineParts) /= 3 THEN Fail("invalid request line")
       ELSE IF \E i \in 2..Len(lines) : Len(HeaderParts(lines)[i]) /= 2
            THEN Fail("invalid header")
       ELSE [err |-> "",
             req |-> [Method |-> requestLineParts[1],
                      Path |-> requestLineParts[2],
                      Version |-> requestLineParts[3],
                      Headers |-> HeaderMap(lines),
                      Body |-> parts[2]]]

\* bufio.Reader.ReadString('\n'): the bytes up to and including the first
\* LF, or everything with io.EOF when there is no LF
ReadString(s) ==
    LET i == IndexOf(s, <<LF>>) IN
    IF i = 0 THEN [err |-> TRUE, line |-> s, rest |-> <<>>]
    ELSE [err |-> FALSE, line |-> Slice(s, 1, i), rest |-> Slice(s, i + 1, Len(s))]

\* unicode.IsSpace on the bytes of the model
IsSpace(b) == b \in {CR, LF, SP}

\* strings.TrimSpace
RECURSIVE TrimSpace(_)
TrimSpace(s) ==
    IF s = <<>> THEN s
    ELSE IF IsSpace(s[1]) THEN TrimSpace(Tail(s))
    ELSE IF IsSpace(s[Len(s)]) THEN TrimSpace(SubSeq(s, 1, Len(s) - 1))
    ELSE s

\* the header loop of pkg/http/request.go: lines are read up to the first
\* empty one, each split at its first ":" with key and value trimmed
RECURSIVE ReadHeaders(_, _)
ReadHeaders(s, headers) ==
    LET r == ReadString(s)
        line == TrimSpace(r.line)
        parts == SplitN2(line, <<COLON>>)
    IN IF r.err THEN [err |-> "error reading header", headers |-> headers, rest |-> <<>>]
       ELSE IF line = <<>> THEN [err |-> "", headers |-> headers, rest |-> r.rest]
       ELSE IF Len(parts) /= 2
            THEN [err |-> "invalid header", headers |-> headers, rest |-> <<>>]
       ELSE ReadHeaders(r.rest, MapPut(headers, TrimSpace(parts[1]), TrimSpace(parts[2])))

\* the key request.Headers["Content-Length"]
ContentLengthKey == <<"Content-Length">>

\* ParseRequest(data, tlsConn) of pkg/http/request.go: (request, nil) or
\* (nil, error); the body is read only under a non-empty Content-Length
ParseRequestTLS(data) ==
    LET first == ReadString(data)
        requestLine == TrimSpace(first.line)
        parts == Split(requestLine, <<SP>>)
        hs == ReadHeaders(first.rest, EmptyMap)
        contentLength == IF ContentLengthKey \in DOMAIN hs.headers
                         THEN hs.headers[ContentLengthKey] ELSE <<>>
        Fail(e) == [err |-> e, req |-> NoRequest]
    IN IF first.err THEN Fail("error reading request line")
       ELSE IF Len(parts) /= 3 THEN Fail("invalid request line")
       ELSE IF hs.err /= "" THEN Fail(hs.err)
       ELSE IF contentLength /= <<>> /\ hs.rest = <<>> THEN Fail("error reading body")
       ELSE [err |-> "",
             req |-> [Method |-> parts[1],
                      Path |-> parts[2],
                      Version |-> parts[3],
                      Headers |-> hs.headers,
                      Body |-> IF contentLength /= <<>> THEN hs.rest ELSE <<>>]]

(******************************* handlers **********************************)
\* the files under <executable dir>/public, keyed by the path below it
PublicDir(filePath) ==
    CASE filePath = <<"/", "index", ".html">> -> [kind |-> "file", content |-> <<"<html>">>]
      [] filePath = <<"/", "css">> -> [kind |-> "dir", content |-> <<>>]
      [] OTHER -> [kind |-> "none", content |-> <<>>]

\* filepath.Ext: the extension symbol a path ends with, or none
Ext(path) ==
    IF Len(path) > 0 /\ path[Len(path)] \in {".html", ".htm", ".css", ".js", ".txt", ".png"}
    THEN path[Len(path)] ELSE ""

\* getContentType: mime.TypeByExtension, then the handler's own table
getContentType(path) ==
    CASE Ext(path) \in {".html", ".htm"} -> <<"text/html; charset=utf-8">>
      [] Ext(path) = ".css" -> <<"text/css; charset=utf-8">>
      [] Ext(path) = ".js" -> <<"text/javascript; charset=utf-8">>
      [] Ext(path) = ".txt" -> <<"text/plain; charset=utf-8">>
      [] Ext(path) = ".png" -> <<"image/png">>
      [] OTHER -> <<"application/octet-stream">>

\* mutant of StaticFileHandler: no check for ".." before os.Open
StaticFileHandlerNoCheck(req) ==
    LET trimmed == TrimPrefix(req.Path, <<"/", "static">>)
        filePath == IF trimmed = <<>> \/ trimmed = <<"/">>
                    THEN <<"/", "index", ".html">> ELSE trimmed
        f == PublicDir(filePath)
    IN IF f.kind /= "file"
       THEN [resp |-> NotFoundResponse, opened |-> TRUE]
       ELSE [resp |->
               [SetHeader(SetHeader([NewResponse EXCEPT !.StatusCode = OK,
                                                        !.StatusText = StatusText(OK)],
                                    "Content-Type", getContentType(filePath)),
                          "Content-Length", Itoa(Len(f.content)))
                  EXCEPT !.Body = f.content],
             opened |-> TRUE]

\* StaticFileHandler(basePath)(req); opened is whether os.Open was called
StaticFileHandler(req) ==
    LET trimmed == TrimPrefix(req.Path, <<"/", "static">>)
        filePath == IF trimmed = <<>> \/ trimmed = <<"/">>
                    THEN <<"/", "index", ".html">> ELSE trimmed
        f == PublicDir(filePath)
    IN IF Contains(filePath, <<".", ".">>)
       THEN [resp |-> NotFoundResponse, opened |-> FALSE]
       ELSE IF f.kind /= "file"
       THEN [resp |-> NotFoundResponse, opened |-> TRUE]
       ELSE [resp |->
               [SetHeader(SetHeader([NewResponse EXCEPT !.StatusCode = OK,
                                                        !.StatusText = StatusText(OK)],
                                    "Content-Type", getContentType(filePath)),
                          "Content-Length", Itoa(Len(f.content)))
                  EXCEPT !.Body = f.content],
             opened |-> TRUE]

handleRoot(req) ==
    SetBody([NewResponse EXCEPT !.StatusCode = 200, !.StatusText = "OK"], WelcomeBody)

handleHello(req) ==
    SetBody([NewResponse EXCEPT !.StatusCode = 200, !.StatusText = "OK"], HelloBody)

handleEcho(req) ==
    [SetHeader(SetHeader([NewResponse EXCEPT !.StatusCode = 200, !.StatusText = "OK"],
                         "Content-Type", <<"text/plain">>),
               "Content-Length", Itoa(Len(req.Body)))
       EXCEPT !.Body = req.Body]

\* handler(req) for a handler value of the route table
CallHandler(h, req) ==
    CASE h = "handleRoot" -> handleRoot(req)
      [] h = "handleHello" -> handleHello(req)
      [] h = "handleEcho" -> handleEcho(req)
      [] h = "staticHandler" -> StaticFileHandler(req).resp

(******************************** Router ***********************************)
\* NewRouter(): no routes, no middleware
NewRouter == [routes |-> EmptyMap, middleware |-> <<>>]

\* Router.Use
Use(r, mw) == [r EXCEPT !.middleware = Append(@, mw)]

\* mutant of AddRoute: a pair that has a handler keeps it
AddRouteKeepFirst(r, method, path, handler) ==
    LET inner == IF method \in DOMAIN r.routes THEN r.routes[method] ELSE EmptyMap
    IN IF path \in DOMAIN inner THEN r
       ELSE [r EXCEPT !.routes = MapPut(@, method, MapPut(inner, path, handler))]

\* Router.AddRoute
AddRoute(r, method, path, handler) ==
    LET inner == IF method \in DOMAIN r.routes THEN r.routes[method] ELSE EmptyMap
    IN [r EXCEPT !.routes = MapPut(@, method, MapPut(inner, path, handler))]

\* mutant of Compose: the loop runs from the first middleware to the last, so
\* the last one registered ends up outermost
ComposeFirstInnermost(middleware, i, handler) ==
    [k \in 1..i |-> middleware[i + 1 - k]] \o handler

\* the loop of HandleRequest: handler = middleware[i](handler) for i = n-1 .. 0;
\* a composed handler is the list of its wrappers, outermost first, then the handler
RECURSIVE Compose(_, _, _)
Compose(middleware, i, handler) ==
    IF i < 1 THEN handler
    ELSE Compose(middleware, i - 1, <<middleware[i]>> \o handler)

\* calling a composed handler: each middleware (as LoggingMiddleware) acts before
\* calling next, calls next once, acts after it and returns next's response
RECURSIVE Invoke(_, _)
Invoke(composed, req) ==
    IF Len(composed) = 1
    THEN [resp |-> CallHandler(composed[1], req), events |-> <<<<composed[1], "call">>>>]
    ELSE LET inner == Invoke(Tail(composed), req)
         IN [resp |-> inner.resp,
             events |-> <<<<composed[1], "before">>>> \o inner.events
                        \o <<<<composed[1], "after">>>>]

\* what HandleRequest leaves: the response returned, the steps the middleware
\* and the handler made, and the router after the call
Handled(r, resp, events) == [resp |-> resp, events |-> events, router |-> r]

\* a hit: the chain is composed around the handler and called
Hit(r, req, handler) ==
    LET res == Invoke(Compose(r.middleware, Len(r.middleware), <<handler>>), req)
    IN Handled(r, res.resp, res.events)

\* mutant of HandleRequest: a request that hits no route gets the zero response
HandleRequestMissEmpty(r, req) ==
    IF req.Method \in DOMAIN r.routes /\ req.Path \in DOMAIN r.routes[req.Method]
    THEN Hit(r, req, r.routes[req.Method][req.Path])
    ELSE Handled(r, NewResponse, <<>>)

\* mutant of HandleRequest: the longest registered path that is a prefix of the
\* request's path matches
HandleRequestPrefix(r, req) ==
    LET hits == IF req.Method \in DOMAIN r.routes
                THEN {p \in DOMAIN r.routes[req.Method] : HasPrefix(req.Path, p)}
                ELSE {}
        best == CHOOSE p \in hits : \A q \in hits : Len(q) <= Len(p)
    IN IF hits /= {}
       THEN Hit(r, req, r.routes[req.Method][best])
       ELSE Handled(r, NotFoundResponse, <<>>)

\* mutant of HandleRequest: the loop takes the middleware out of the list as
\* it wraps the handler
HandleRequestDrainsList(r, req) ==
    IF req.Method \in DOMAIN r.routes /\ req.Path \in DOMAIN r.routes[req.Method]
    THEN [Hit(r, req, r.routes[req.Method][req.Path])
             EXCEPT !.router = [r EXCEPT !.middleware = <<>>]]
    ELSE Handled(r, NotFoundResponse, <<>>)

\* mutant of HandleRequest: the middleware chain also runs on a miss, around
\* the 404 response
HandleRequestWrapsMiss(r, req) ==
    LET n == Len(r.middleware) IN
    IF req.Method \in DOMAIN r.routes /\ req.Path \in DOMAIN r.routes[req.Method]
    THEN Hit(r, req, r.routes[req.Method][req.Path])
    ELSE Handled(r, NotFoundResponse,
                 [i \in 1..n |-> <<r.middleware[i], "before">>]
                    \o [i \in 1..n |-> <<r.middleware[n + 1 - i], "after">>])

\* Router.HandleRequest
HandleRequest(r, req) ==
    IF req.Method \in DOMAIN r.routes /\ req.Path \in DOMAIN r.routes[req.Method]
    THEN Hit(r, req, r.routes[req.Method][req.Path])
    ELSE Handled(r, NotFoundResponse, <<>>)

\* the router main builds before it starts the server
MainRouter ==
    AddRoute(AddRoute(AddRoute(AddRoute(Use(NewRouter, "LoggingMiddleware"),
        <<"GET">>, <<"/">>, "handleRoot"),
        <<"GET">>, <<"/", "hello">>, "handleHello"),
        <<"POST">>, <<"/", "echo">>, "handleEcho"),
        <<"GET">>, <<"/", "static", "/">>, "staticHandler")

\* the AddRoute calls of main, in order: <<method, path, handler>>
MainRoutes ==
    << <<<<"GET">>, <<"/">>, "handleRoot">>,
       <<<<"GET">>, <<"/", "hello">>, "handleHello">>,
       <<<<"POST">>, <<"/", "echo">>, "handleEcho">>,
       <<<<"GET">>, <<"/", "static", "/">>, "staticHandler">> >>

\* before any HandleRequest: nothing returned, nothing run
NoRouted == [resp |-> NewResponse, events |-> <<>>]

\* before any Use that followed a HandleRequest
NoEarlier == [req |-> NoRequest, resp |-> NewResponse, events |-> <<>>]

\* before any serialization
NoWire == [by |-> "none", bytes |-> <<>>]

\* before any ParseRequest
NoSent == [line |-> <<>>, headers |-> <<>>, sep |-> <<>>, body |-> <<>>]
NoParsed == [by |-> "none", err |-> "", req |-> NoRequest]

\* before any call of the static file handler
NoServed == [called |-> FALSE, opened |-> FALSE, resp |-> NewResponse]

(******************************** state ************************************)
\* goroutines: 0 is main, c >= 1 handles connection c
Tasks == 0..NumConns
\* accepted connections, and those net.Dial can establish
Conns == 1..NumConns
AllConns == 1..(NumConns + MaxDial)
NoTask == -1
NoConn == 0

VARIABLES
    mu,         \* ConnPool.mu: the goroutine holding it, or NoTask
    conns,      \* ConnPool.conns: the buffered connections of the current channel
    chClosed,   \* whether the current channel has been closed
    maxConns,   \* ConnPool.maxConns
    open,       \* open[c]: the program has not called c.Close()
    call,       \* call[t]: the ConnPool method goroutine t is executing
    held,       \* pool harness: the connections goroutine t owns
    dialed,     \* pool harness: connections net.Dial has established
    proc,       \* the process: "running", "crashed" (panic) or "exited"
    mainPc,     \* main: "wait" (<-quit), "draining", "drained"
    accepted,   \* connections Accept has returned
    acceptErr,  \* startServer: err != nil after the latest Accept
    pc,         \* pc[c]: where handleConnection(c) stands
    rd,         \* rd[c]: (buffer[:n], err) of the Read on c
    resp,       \* resp[c]: the response composed for c
    deadline,   \* deadline[c]: "none", "armed" or "expired"
    panicking,  \* panicking[c]: handleConnection(c) is unwinding a panic
    hist,       \* hist[c]: what handleConnection(c) has done to c, in order
    router,     \* router harness: the Router (routes, middleware)
    registered, \* router harness: the AddRoute calls made, in order
    request,    \* router harness: the request last given to HandleRequest
    routed,     \* router harness: what that HandleRequest returned and ran
    earlier,    \* router harness: request and result of the dispatch before the latest Use
    response,   \* response harness: the Response being built
    calls,      \* response harness: the setter calls made on it, in order
    wire,       \* response harness: the bytes its serialization gave
    sent,       \* parser harness: the lines, separator and body a client sent
    data,       \* parser harness: the buffer given to ParseRequest
    parsed,     \* parser harness: what ParseRequest returned
    target,     \* static harness: the path of the request given to the handler
    served,     \* static harness: what the handler returned and whether it opened a file
    echoListener, \* echo server: the accept loop, "listening", "retry" or "stopped"
    echoAccepted, \* echo server: connections Accept has returned
    echoPc,     \* echo server: echoPc[c], where handleConnection(c) stands
    received,   \* echo server: received[c], the chunks read from c, in order
    echoed,     \* echo server: echoed[c], the chunks written to c, in order
    echoOpen    \* echo server: echoOpen[c], c.Close() has not been called

poolVars == <<mu, conns, chClosed, maxConns, open, call>>
harnessVars == <<held, dialed>>
serverVars == <<mainPc, accepted, acceptErr, pc, rd, resp, deadline, panicking, hist>>
routerVars == <<router, registered, request, routed, earlier>>
responseVars == <<response, calls, wire>>
parserVars == <<sent, data, parsed>>
staticVars == <<target, served>>
echoVars == <<echoListener, echoAccepted, echoPc, received, echoed, echoOpen>>
vars == <<mu, conns, chClosed, maxConns, open, call, held, dialed, proc,
          mainPc, accepted, acceptErr, pc, rd, resp, deadline, panicking, hist,
          router, registered, request, routed, earlier, response, calls, wire,
          sent, data, parsed, target, served,
          echoListener, echoAccepted, echoPc, received, echoed, echoOpen>>

NoCall == [op |-> "none", at |-> "none", conn |-> NoConn, panic |-> FALSE]
Calling(op, c) == [op |-> op, at |-> "lock", conn |-> c, panic |-> FALSE]

\* the parser harness has not run: no buffer, nothing parsed
ParserUnused ==
    /\ sent = NoSent
    /\ data = <<>>
    /\ parsed = NoParsed

\* the static harness has not run: the path "/static", the handler not called
StaticUnused ==
    /\ target = <<"/", "static">>
    /\ served = NoServed

\* the echo server has not started: nothing accepted
EchoUnused ==
    /\ echoListener = "listening"
    /\ echoAccepted = 0
    /\ echoPc = [c \in Conns |-> "idle"]
    /\ received = [c \in Conns |-> <<>>]
    /\ echoed = [c \in Conns |-> <<>>]
    /\ echoOpen = [c \in Conns |-> TRUE]

(******************************* ConnPool **********************************)
\* NewConnPool(maxConns): an empty channel of that capacity, mutex unlocked
NewConnPool(n) ==
    /\ mu = NoTask
    /\ conns = <<>>
    /\ chClosed = FALSE
    /\ maxConns = n

\* mutant of Lock: the mutex is taken without waiting for its holder
LockNoWait(t) ==
    /\ call[t].at = "lock"
    /\ mu' = t
    /\ call' = [call EXCEPT ![t].at = "body"]
    /\ UNCHANGED <<conns, chClosed, maxConns, open>>

\* p.mu.Lock(), the first statement of Get, Put and CloseIdleConnections
Lock(t) ==
    /\ call[t].at = "lock"
    /\ mu = NoTask
    /\ mu' = t
    /\ call' = [call EXCEPT ![t].at = "body"]
    /\ UNCHANGED <<conns, chClosed, maxConns, open>>

\* the deferred p.mu.Unlock(), then the method returns
Unlock(t) ==
    /\ call[t].at = "unlock"
    /\ mu' = IF mu = t THEN NoTask ELSE mu
    /\ call' = [call EXCEPT ![t] = NoCall]
    /\ UNCHANGED <<conns, chClosed, maxConns, open>>

\* mutant of PutSelect: the send does not look at the capacity
PutSelectNoCap(t) ==
    /\ call[t].op = "Put" /\ call[t].at = "body"
    /\ conns' = Append(conns, call[t].conn)
    /\ call' = [call EXCEPT ![t].at = "unlock", ![t].panic = chClosed]
    /\ UNCHANGED <<mu, chClosed, maxConns, open>>

\* mutant of PutSelect: the connection is closed on both branches
PutSelectCloseToo(t) ==
    /\ call[t].op = "Put" /\ call[t].at = "body"
    /\ conns' = IF ~chClosed /\ Len(conns) < maxConns
                THEN Append(conns, call[t].conn) ELSE conns
    /\ open' = [open EXCEPT ![call[t].conn] = FALSE]
    /\ call' = [call EXCEPT ![t].at = "unlock", ![t].panic = chClosed]
    /\ UNCHANGED <<mu, chClosed, maxConns>>

\* mutant of PutSelect: the send takes the oldest idle connection out of the
\* queue and closes it
PutSelectEvicts(t) ==
    /\ call[t].op = "Put" /\ call[t].at = "body"
    /\ conns' = IF conns = <<>> THEN <<call[t].conn>>
                ELSE Append(Tail(conns), call[t].conn)
    /\ open' = IF conns = <<>> THEN open ELSE [open EXCEPT ![Head(conns)] = FALSE]
    /\ call' = [call EXCEPT ![t].at = "unlock", ![t].panic = chClosed]
    /\ UNCHANGED <<mu, chClosed, maxConns>>

\* Put's select: send if the channel has room, else conn.Close();
\* a send on a closed channel panics
PutSelect(t) ==
    /\ call[t].op = "Put" /\ call[t].at = "body"
    /\ LET c == call[t].conn IN
       IF chClosed
       THEN /\ call' = [call EXCEPT ![t].at = "unlock", ![t].panic = TRUE]
            /\ UNCHANGED <<conns, open>>
       ELSE IF Len(conns) < maxConns
       THEN /\ conns' = Append(conns, c)
            /\ call' = [call EXCEPT ![t].at = "unlock"]
            /\ UNCHANGED open
       ELSE /\ open' = [open EXCEPT ![c] = FALSE]
            /\ call' = [call EXCEPT ![t].at = "unlock"]
            /\ UNCHANGED conns
    /\ UNCHANGED <<mu, chClosed, maxConns>>

\* mutant of GetSelect: the connection returned stays in the queue
GetSelectNoRemove(t, dial) ==
    /\ call[t].op = "Get" /\ call[t].at = "body"
    /\ call' = [call EXCEPT ![t].at = "unlock",
                            ![t].conn = IF conns /= <<>> THEN Head(conns)
                                        ELSE IF chClosed THEN NoConn ELSE dial]
    /\ UNCHANGED <<mu, conns, chClosed, maxConns, open>>

\* Get's select: receive a queued connection, else return net.Dial's result
\* (dial: the connection it establishes, NoConn when it fails); a receive on a
\* closed, drained channel yields the nil connection
GetSelect(t, dial) ==
    /\ call[t].op = "Get" /\ call[t].at = "body"
    /\ IF conns /= <<>>
       THEN /\ conns' = Tail(conns)
            /\ call' = [call EXCEPT ![t].at = "unlock", ![t].conn = Head(conns)]
       ELSE /\ call' = [call EXCEPT ![t].at = "unlock",
                                    ![t].conn = IF chClosed THEN NoConn ELSE dial]
            /\ UNCHANGED conns
    /\ UNCHANGED <<mu, chClosed, maxConns, open>>

\* CloseIdleConnections: close(p.conns)
CloseChan(t) ==
    /\ call[t].op = "Close" /\ call[t].at = "body"
    /\ chClosed' = TRUE
    /\ call' = [call EXCEPT ![t].at = "range"]
    /\ UNCHANGED <<mu, conns, maxConns, open>>

\* mutant of CloseRange: the loop drops the connections without closing them
CloseRangeNoClose(t) ==
    /\ call[t].op = "Close" /\ call[t].at = "range"
    /\ IF conns /= <<>>
       THEN conns' = Tail(conns) /\ UNCHANGED call
       ELSE call' = [call EXCEPT ![t].at = "make"] /\ UNCHANGED conns
    /\ UNCHANGED <<mu, chClosed, maxConns, open>>

\* CloseIdleConnections: one turn of `for conn := range p.conns { conn.Close() }`;
\* the loop ends when the closed channel is drained
CloseRange(t) ==
    /\ call[t].op = "Close" /\ call[t].at = "range"
    /\ IF conns /= <<>>
       THEN /\ conns' = Tail(conns)
            /\ open' = [open EXCEPT ![Head(conns)] = FALSE]
            /\ UNCHANGED call
       ELSE /\ call' = [call EXCEPT ![t].at = "make"]
            /\ UNCHANGED <<conns, open>>
    /\ UNCHANGED <<mu, chClosed, maxConns>>

\* mutant of CloseMake: no new channel is made, the closed one stays
CloseMakeKeepsClosed(t) ==
    /\ call[t].op = "Close" /\ call[t].at = "make"
    /\ call' = [call EXCEPT ![t].at = "unlock"]
    /\ UNCHANGED <<mu, conns, chClosed, maxConns, open>>

\* CloseIdleConnections: p.conns = make(chan net.Conn, p.maxConns)
CloseMake(t) ==
    /\ call[t].op = "Close" /\ call[t].at = "make"
    /\ conns' = <<>>
    /\ chClosed' = FALSE
    /\ call' = [call EXCEPT ![t].at = "unlock"]
    /\ UNCHANGED <<mu, maxConns, open>>

(******************************** server ***********************************)
\* what a client may have sent when the Read returns data
ReqRoot == <<"GET", SP, "/", SP, "HTTP/1.1", CR, LF, CR, LF>>
ReqBadLine == <<"GET", SP, "HTTP/1.1", CR, LF, CR, LF>>
ReadBuffers == {ReqRoot, ReqBadLine}

\* the results conn.Read can give: data, EOF, an I/O error, the deadline's timeout
ReadResults ==
    {[data |-> b, err |-> "nil"] : b \in ReadBuffers}
        \cup {[data |-> <<>>, err |-> e] : e \in {"EOF", "other", "timeout"}}
NoRead == [data |-> <<>>, err |-> "none"]

Ev(op, code, ok) == [op |-> op, code |-> code, ok |-> ok]

Running == proc = "running"

\* handleConnection returns: the deferred connPool.Put(conn) starts
Return(c, evs) ==
    /\ pc' = [pc EXCEPT ![c] = "put"]
    /\ call' = [call EXCEPT ![c] = Calling("Put", c)]
    /\ hist' = [hist EXCEPT ![c] = @ \o evs \o <<Ev("put", 0, TRUE)>>]

\* startServer: Accept returns a connection; go handleConnection(conn, router)
Accept ==
    /\ Running
    /\ accepted < NumConns
    /\ accepted' = accepted + 1
    /\ acceptErr' = FALSE
    /\ pc' = [pc EXCEPT ![accepted + 1] = "start"]
    /\ UNCHANGED <<poolVars, harnessVars, routerVars, responseVars, parserVars, staticVars, echoVars, proc, mainPc, rd, resp, deadline,
                   panicking, hist>>

\* mutant of AcceptFail: the error of Accept ends the process
AcceptFailStops ==
    /\ Running
    /\ accepted < NumConns
    /\ acceptErr' = TRUE
    /\ proc' = "exited"
    /\ UNCHANGED <<poolVars, harnessVars, routerVars, responseVars, parserVars, staticVars, echoVars, mainPc, accepted, pc, rd, resp,
                   deadline, panicking, hist>>

\* startServer: Accept returns an error; it is printed and the loop continues
AcceptFail ==
    /\ Running
    /\ accepted < NumConns
    /\ acceptErr' = TRUE
    /\ UNCHANGED <<poolVars, harnessVars, routerVars, responseVars, parserVars, staticVars, echoVars, proc, mainPc, accepted, pc, rd, resp,
                   deadline, panicking, hist>>

\* conn.SetDeadline(time.Now().Add(30 * time.Second))
SetDeadline(c) ==
    /\ Running
    /\ pc[c] = "start"
    /\ deadline' = [deadline EXCEPT ![c] = "armed"]
    /\ pc' = [pc EXCEPT ![c] = "read"]
    /\ hist' = [hist EXCEPT ![c] = Append(@, Ev("deadline", 0, TRUE))]
    /\ UNCHANGED <<poolVars, harnessVars, routerVars, responseVars, parserVars, staticVars, echoVars, proc, mainPc, accepted, acceptErr, rd,
                   resp, panicking>>

\* mutant of Read: io.EOF is handled as a read error
ReadEOFIsError(c) ==
    /\ Running
    /\ pc[c] = "read"
    /\ \E r \in ReadResults :
          /\ rd' = [rd EXCEPT ![c] = r]
          /\ deadline' = [deadline EXCEPT ![c] =
                            IF r.err = "timeout" THEN "expired" ELSE @]
          /\ pc' = [pc EXCEPT ![c] = IF r.err = "nil" THEN "parse" ELSE "readErr"]
          /\ hist' = [hist EXCEPT ![c] = Append(@, Ev("read", 0, r.err = "nil"))]
    /\ UNCHANGED <<poolVars, harnessVars, routerVars, responseVars, parserVars, staticVars, echoVars, proc, mainPc, accepted, acceptErr, resp,
                   panicking>>

\* n, err := conn.Read(buffer): it blocks until the peer sends data, closes or
\* fails, or until the deadline passes, which ends it with a timeout error
Read(c) ==
    /\ Running
    /\ pc[c] = "read"
    /\ \E r \in ReadResults :
          /\ rd' = [rd EXCEPT ![c] = r]
          /\ deadline' = [deadline EXCEPT ![c] =
                            IF r.err = "timeout" THEN "expired" ELSE @]
          /\ pc' = [pc EXCEPT ![c] = IF r.err \in {"nil", "EOF"}
                                     THEN "parse" ELSE "readErr"]
          /\ hist' = [hist EXCEPT ![c] = Append(@, Ev("read", 0, r.err \in {"nil", "EOF"}))]
    /\ UNCHANGED <<poolVars, harnessVars, routerVars, responseVars, parserVars, staticVars, echoVars, proc, mainPc, accepted, acceptErr, resp,
                   panicking>>

\* mutant of HandleConnectionError: the error path ends without the Put
HandleConnectionErrorNoPut(c) ==
    /\ Running
    /\ pc[c] = "readErr"
    /\ IF rd[c].err = "timeout"
       THEN /\ resp' = [resp EXCEPT ![c] =
                          ErrorResponse(NewHTTPError(StatusRequestTimeout, RequestTimeoutMsg))]
            /\ pc' = [pc EXCEPT ![c] = "errWrite"]
            /\ UNCHANGED hist
       ELSE /\ pc' = [pc EXCEPT ![c] = "done"]
            /\ hist' = [hist EXCEPT ![c] = Append(@, Ev("log", 0, TRUE))]
            /\ UNCHANGED resp
    /\ UNCHANGED <<poolVars, harnessVars, routerVars, responseVars, parserVars, staticVars, echoVars, proc, mainPc, accepted, acceptErr, rd,
                   deadline, panicking>>

\* mutant of HandleConnectionError: a new deadline is set for the 408 response
HandleConnectionErrorNewDeadline(c) ==
    /\ Running
    /\ pc[c] = "readErr"
    /\ IF rd[c].err = "timeout"
       THEN /\ resp' = [resp EXCEPT ![c] =
                          ErrorResponse(NewHTTPError(StatusRequestTimeout, RequestTimeoutMsg))]
            /\ pc' = [pc EXCEPT ![c] = "errWrite"]
            /\ deadline' = [deadline EXCEPT ![c] = "armed"]
            /\ hist' = [hist EXCEPT ![c] = Append(@, Ev("deadline", 0, TRUE))]
            /\ UNCHANGED call
       ELSE /\ Return(c, <<Ev("log", 0, TRUE)>>)
            /\ UNCHANGED <<resp, deadline>>
    /\ UNCHANGED <<mu, conns, chClosed, maxConns, open, harnessVars, routerVars, responseVars, parserVars, staticVars, echoVars, proc, mainPc,
                   accepted, acceptErr, rd, panicking>>

\* handleConnectionError: a timeout goes to handleHTTPError with 408, any other
\* error is printed; handleConnection then returns
HandleConnectionError(c) ==
    /\ Running
    /\ pc[c] = "readErr"
    /\ IF rd[c].err = "timeout"
       THEN /\ resp' = [resp EXCEPT ![c] =
                          ErrorResponse(NewHTTPError(StatusRequestTimeout, RequestTimeoutMsg))]
            /\ pc' = [pc EXCEPT ![c] = "errWrite"]
            /\ UNCHANGED <<call, hist>>
       ELSE /\ Return(c, <<Ev("log", 0, TRUE)>>)
            /\ UNCHANGED resp
    /\ UNCHANGED <<mu, conns, chClosed, maxConns, open, harnessVars, routerVars, responseVars, parserVars, staticVars, echoVars, proc, mainPc,
                   accepted, acceptErr, rd, deadline, panicking>>

\* mutant of Parse: the error of ParseRequest is not looked at
ParseIgnoreErr(c) ==
    /\ Running
    /\ pc[c] = "parse"
    /\ pc' = [pc EXCEPT ![c] = "dispatch"]
    /\ hist' = [hist EXCEPT ![c] = Append(@, Ev("parse", 0, TRUE))]
    /\ UNCHANGED <<poolVars, harnessVars, routerVars, responseVars, parserVars, staticVars, echoVars, proc, mainPc, accepted, acceptErr, rd,
                   resp, deadline, panicking>>

\* request, err := http.ParseRequest(buffer[:n]); on an error it is printed and
\* handleHTTPError gets 400 "Invalid request"
Parse(c) ==
    /\ Running
    /\ pc[c] = "parse"
    /\ LET r == ParseRequest(rd[c].data) IN
       IF r.err /= ""
       THEN /\ resp' = [resp EXCEPT ![c] =
                          ErrorResponse(NewHTTPError(BadRequest, InvalidRequestMsg))]
            /\ pc' = [pc EXCEPT ![c] = "errWrite"]
            /\ hist' = [hist EXCEPT ![c] = Append(@, Ev("parse", 0, FALSE))]
       ELSE /\ pc' = [pc EXCEPT ![c] = "dispatch"]
            /\ hist' = [hist EXCEPT ![c] = Append(@, Ev("parse", 0, TRUE))]
            /\ UNCHANGED resp
    /\ UNCHANGED <<poolVars, harnessVars, routerVars, responseVars, parserVars, staticVars, echoVars, proc, mainPc, accepted, acceptErr, rd,
                   deadline, panicking>>

\* whether the request of c hits a route (only then handler code runs)
RouteHit(r, req) ==
    req.Method \in DOMAIN r.routes /\ req.Path \in DOMAIN r.routes[req.Method]

\* response := router.HandleRequest(request); a handler or middleware that
\* panics unwinds handleConnection, which runs the deferred Put
Dispatch(c) ==
    /\ Running
    /\ pc[c] = "dispatch"
    /\ LET req == ParseRequest(rd[c].data).req IN
       \E panics \in (IF RouteHit(MainRouter, req) THEN BOOLEAN ELSE {FALSE}) :
          IF panics
          THEN /\ panicking' = [panicking EXCEPT ![c] = TRUE]
               /\ Return(c, <<Ev("dispatch", 0, FALSE)>>)
               /\ UNCHANGED resp
          ELSE /\ resp' = [resp EXCEPT ![c] = HandleRequest(MainRouter, req).resp]
               /\ pc' = [pc EXCEPT ![c] = "write"]
               /\ hist' = [hist EXCEPT ![c] = Append(@, Ev("dispatch", 0, TRUE))]
               /\ UNCHANGED <<call, panicking>>
    /\ UNCHANGED <<mu, conns, chClosed, maxConns, open, harnessVars, routerVars, responseVars, parserVars, staticVars, echoVars, proc, mainPc,
                   accepted, acceptErr, rd, deadline>>

\* the results conn.Write can give (TRUE: written): SetDeadline covers writes
\* too, so every Write after the deadline has passed fails with a timeout
WriteResults(c) == IF deadline[c] = "expired" THEN {FALSE} ELSE BOOLEAN

\* mutant of WriteResponse: after the write the task reads the next request
WriteResponseKeepAlive(c) ==
    /\ Running
    /\ pc[c] = "write"
    /\ \E ok \in WriteResults(c) :
          /\ pc' = [pc EXCEPT ![c] = "read"]
          /\ hist' = [hist EXCEPT ![c] = Append(@, Ev("write", resp[c].StatusCode, ok))]
    /\ UNCHANGED call
    /\ UNCHANGED <<mu, conns, chClosed, maxConns, open, harnessVars, routerVars, responseVars, parserVars, staticVars, echoVars, proc, mainPc,
                   accepted, acceptErr, rd, resp, deadline, panicking>>

\* _, err = conn.Write(http.FormatResponse(response)); an error is printed
WriteResponse(c) ==
    /\ Running
    /\ pc[c] = "write"
    /\ \E ok \in WriteResults(c) :
          Return(c, <<Ev("write", resp[c].StatusCode, ok)>>
                    \o (IF ok THEN <<>> ELSE <<Ev("log", 0, TRUE)>>))
    /\ UNCHANGED <<mu, conns, chClosed, maxConns, open, harnessVars, routerVars, responseVars, parserVars, staticVars, echoVars, proc, mainPc,
                   accepted, acceptErr, rd, resp, deadline, panicking>>

\* mutant of HandleHTTPError: handleConnection does not return after the
\* error response and goes on to write a response
HandleHTTPErrorNoReturn(c) ==
    /\ Running
    /\ pc[c] = "errWrite"
    /\ \E ok \in WriteResults(c) :
          /\ pc' = [pc EXCEPT ![c] = "write"]
          /\ hist' = [hist EXCEPT ![c] = Append(@, Ev("write", resp[c].StatusCode, ok))]
    /\ UNCHANGED call
    /\ UNCHANGED <<mu, conns, chClosed, maxConns, open, harnessVars, routerVars, responseVars, parserVars, staticVars, echoVars, proc, mainPc,
                   accepted, acceptErr, rd, resp, deadline, panicking>>

\* handleHTTPError: conn.Write(http.FormatResponse(response)) of the error
\* response; an error is printed; handleConnection then returns
HandleHTTPError(c) ==
    /\ Running
    /\ pc[c] = "errWrite"
    /\ \E ok \in WriteResults(c) :
          Return(c, <<Ev("write", resp[c].StatusCode, ok)>>
                    \o (IF ok THEN <<>> ELSE <<Ev("log", 0, TRUE)>>))
    /\ UNCHANGED <<mu, conns, chClosed, maxConns, open, harnessVars, routerVars, responseVars, parserVars, staticVars, echoVars, proc, mainPc,
                   accepted, acceptErr, rd, resp, deadline, panicking>>

\* the deferred connPool.Put(conn), step by step
PutLock(c) ==
    /\ Running
    /\ pc[c] = "put" /\ call[c].op = "Put"
    /\ Lock(c)
    /\ UNCHANGED <<harnessVars, routerVars, responseVars, parserVars, staticVars, echoVars, proc, serverVars>>

PutBody(c) ==
    /\ Running
    /\ pc[c] = "put"
    /\ PutSelect(c)
    /\ UNCHANGED <<harnessVars, routerVars, responseVars, parserVars, staticVars, echoVars, proc, serverVars>>

\* Put returns and the goroutine ends; an unrecovered panic ends the process
PutReturn(c) ==
    /\ Running
    /\ pc[c] = "put" /\ call[c].op = "Put"
    /\ Unlock(c)
    /\ pc' = [pc EXCEPT ![c] = "done"]
    /\ proc' = IF panicking[c] \/ call[c].panic THEN "crashed" ELSE proc
    /\ UNCHANGED <<harnessVars, routerVars, responseVars, parserVars, staticVars, echoVars, mainPc, accepted, acceptErr, rd, resp, deadline,
                   panicking, hist>>

\* main: <-quit receives SIGINT or SIGABRT; connPool.CloseIdleConnections() starts
Signal ==
    /\ Running
    /\ mainPc = "wait"
    /\ mainPc' = "draining"
    /\ call' = [call EXCEPT ![0] = Calling("Close", NoConn)]
    /\ UNCHANGED <<mu, conns, chClosed, maxConns, open, harnessVars, routerVars, responseVars, parserVars, staticVars, echoVars, proc, accepted,
                   acceptErr, pc, rd, resp, deadline, panicking, hist>>

\* connPool.CloseIdleConnections() in main, step by step
DrainLock ==
    /\ Running
    /\ mainPc = "draining" /\ call[0].op = "Close"
    /\ Lock(0)
    /\ UNCHANGED <<harnessVars, routerVars, responseVars, parserVars, staticVars, echoVars, proc, serverVars>>

DrainClose ==
    /\ Running
    /\ mainPc = "draining"
    /\ CloseChan(0)
    /\ UNCHANGED <<harnessVars, routerVars, responseVars, parserVars, staticVars, echoVars, proc, serverVars>>

DrainRange ==
    /\ Running
    /\ mainPc = "draining"
    /\ CloseRange(0)
    /\ UNCHANGED <<harnessVars, routerVars, responseVars, parserVars, staticVars, echoVars, proc, serverVars>>

DrainMake ==
    /\ Running
    /\ mainPc = "draining"
    /\ CloseMake(0)
    /\ UNCHANGED <<harnessVars, routerVars, responseVars, parserVars, staticVars, echoVars, proc, serverVars>>

DrainReturn ==
    /\ Running
    /\ mainPc = "draining" /\ call[0].op = "Close"
    /\ Unlock(0)
    /\ mainPc' = "drained"
    /\ UNCHANGED <<harnessVars, routerVars, responseVars, parserVars, staticVars, echoVars, proc, accepted, acceptErr, pc, rd, resp, deadline,
                   panicking, hist>>

\* main prints "Server stopped" and returns: the process exits
MainExit ==
    /\ Running
    /\ mainPc = "drained"
    /\ proc' = "exited"
    /\ UNCHANGED <<poolVars, harnessVars, routerVars, responseVars, parserVars, staticVars, echoVars, serverVars>>

Init ==
    /\ NewConnPool(ServerMaxConns)
    /\ open = [c \in AllConns |-> TRUE]
    /\ call = [t \in Tasks |-> NoCall]
    /\ held = [t \in Tasks |-> {}]
    /\ dialed = 0
    /\ proc = "running"
    /\ mainPc = "wait"
    /\ accepted = 0
    /\ acceptErr = FALSE
    /\ pc = [c \in Conns |-> "idle"]
    /\ rd = [c \in Conns |-> NoRead]
    /\ resp = [c \in Conns |-> NewResponse]
    /\ deadline = [c \in Conns |-> "none"]
    /\ panicking = [c \in Conns |-> FALSE]
    /\ hist = [c \in Conns |-> <<>>]
    /\ router = MainRouter
    /\ registered = MainRoutes
    /\ request = NoRequest
    /\ routed = NoRouted
    /\ earlier = NoEarlier
    /\ response = NewResponse
    /\ calls = <<>>
    /\ wire = NoWire
    /\ ParserUnused
    /\ StaticUnused
    /\ EchoUnused

Next ==
    \/ Accept
    \/ AcceptFail
    \/ \E c \in Conns : SetDeadline(c)
    \/ \E c \in Conns : Read(c)
    \/ \E c \in Conns : HandleConnectionError(c)
    \/ \E c \in Conns : Parse(c)
    \/ \E c \in Conns : Dispatch(c)
    \/ \E c \in Conns : WriteResponse(c)
    \/ \E c \in Conns : HandleHTTPError(c)
    \/ \E c \in Conns : PutLock(c)
    \/ \E c \in Conns : PutBody(c)
    \/ \E c \in Conns : PutReturn(c)
    \/ Signal
    \/ DrainLock
    \/ DrainClose
    \/ DrainRange
    \/ DrainMake
    \/ DrainReturn
    \/ MainExit

Spec == Init /\ [][Next]_vars

\* The scheduling the runtime gives: a goroutine that can take its next step
\* takes it. conn.Read and conn.Write return by the deadline at the latest,
\* sync.Mutex hands the lock to a waiter, and main, once the signal has come,
\* runs to its return. Nothing makes a client connect (Accept) or a signal
\* arrive (Signal).
\* ParseRequest is a loop-free walk over the buffer and returns; that the
\* handler and the middleware around it return is what the termination claim
\* takes as given. Both say that a running task does not stay at that step,
\* which is weak fairness of Parse(c) and Dispatch(c): each is enabled exactly
\* when the process runs and the task is at the step, and each leaves the step.
CallsReturn(c) ==
    /\ []<>~(Running /\ pc[c] = "parse")
    /\ []<>~(Running /\ pc[c] = "dispatch")

TaskFairness(c) ==
    /\ WF_vars(SetDeadline(c))
    /\ WF_vars(Read(c))
    /\ WF_vars(HandleConnectionError(c))
    /\ CallsReturn(c)
    /\ WF_vars(WriteResponse(c))
    /\ WF_vars(HandleHTTPError(c))
    /\ WF_vars(PutLock(c))
    /\ WF_vars(PutBody(c))
    /\ WF_vars(PutReturn(c))

MainFairness ==
    /\ WF_vars(DrainLock)
    /\ WF_vars(DrainClose)
    /\ WF_vars(DrainRange)
    /\ WF_vars(DrainMake)
    /\ WF_vars(DrainReturn)
    /\ WF_vars(MainExit)

SpecLive == Init /\ [][Next]_vars /\ MainFairness /\ \A c \in Conns : TaskFairness(c)

(****************************** pool harness *******************************)
\* Goroutines 1..NumConns call Put, Get and CloseIdleConnections on one pool in
\* any order and interleaving; goroutine c starts out owning connection c.
PoolCallPut(t) ==
    /\ Running
    /\ call[t].op = "none"
    /\ \E c \in held[t] :
          /\ call' = [call EXCEPT ![t] = Calling("Put", c)]
          /\ held' = [held EXCEPT ![t] = @ \ {c}]
    /\ UNCHANGED <<mu, conns, chClosed, maxConns, open, dialed, proc, serverVars, routerVars, responseVars, parserVars, staticVars, echoVars>>

PoolCallGet(t) ==
    /\ Running
    /\ call[t].op = "none"
    /\ call' = [call EXCEPT ![t] = Calling("Get", NoConn)]
    /\ UNCHANGED <<mu, conns, chClosed, maxConns, open, harnessVars, proc, serverVars, routerVars, responseVars, parserVars, staticVars, echoVars>>

PoolCallClose(t) ==
    /\ Running
    /\ call[t].op = "none"
    /\ call' = [call EXCEPT ![t] = Calling("Close", NoConn)]
    /\ UNCHANGED <<mu, conns, chClosed, maxConns, open, harnessVars, proc, serverVars, routerVars, responseVars, parserVars, staticVars, echoVars>>

PoolLock(t) ==
    /\ Running
    /\ Lock(t)
    /\ UNCHANGED <<harnessVars, proc, serverVars, routerVars, responseVars, parserVars, staticVars, echoVars>>

PoolPutSelect(t) ==
    /\ Running
    /\ PutSelect(t)
    /\ UNCHANGED <<harnessVars, proc, serverVars, routerVars, responseVars, parserVars, staticVars, echoVars>>

\* what net.Dial can return: an error, or a new connection while any is left
DialResults ==
    {NoConn} \cup (IF dialed < MaxDial THEN {NumConns + dialed + 1} ELSE {})

PoolGetSelect(t) ==
    /\ Running
    /\ \E dial \in DialResults :
          /\ GetSelect(t, dial)
          /\ dialed' = IF conns = <<>> /\ ~chClosed /\ dial /= NoConn
                       THEN dialed + 1 ELSE dialed
    /\ UNCHANGED <<held, proc, serverVars, routerVars, responseVars, parserVars, staticVars, echoVars>>

PoolCloseChan(t) ==
    /\ Running
    /\ CloseChan(t)
    /\ UNCHANGED <<harnessVars, proc, serverVars, routerVars, responseVars, parserVars, staticVars, echoVars>>

PoolCloseRange(t) ==
    /\ Running
    /\ CloseRange(t)
    /\ UNCHANGED <<harnessVars, proc, serverVars, routerVars, responseVars, parserVars, staticVars, echoVars>>

PoolCloseMake(t) ==
    /\ Running
    /\ CloseMake(t)
    /\ UNCHANGED <<harnessVars, proc, serverVars, routerVars, responseVars, parserVars, staticVars, echoVars>>

\* the method returns: Get's caller owns the connection it got; a panic in Put
\* (send on a closed channel) ends the process
PoolReturn(t) ==
    /\ Running
    /\ Unlock(t)
    /\ held' = [held EXCEPT ![t] =
                  IF call[t].op = "Get" /\ call[t].conn /= NoConn
                  THEN @ \cup {call[t].conn} ELSE @]
    /\ proc' = IF call[t].panic THEN "crashed" ELSE proc
    /\ UNCHANGED <<dialed, serverVars, routerVars, responseVars, parserVars, staticVars, echoVars>>

InitPool ==
    /\ NewConnPool(PoolCap)
    /\ open = [c \in AllConns |-> TRUE]
    /\ call = [t \in Tasks |-> NoCall]
    /\ held = [t \in Tasks |-> IF t = 0 THEN {} ELSE {t}]
    /\ dialed = 0
    /\ proc = "running"
    /\ mainPc = "wait"
    /\ accepted = 0
    /\ acceptErr = FALSE
    /\ pc = [c \in Conns |-> "idle"]
    /\ rd = [c \in Conns |-> NoRead]
    /\ resp = [c \in Conns |-> NewResponse]
    /\ deadline = [c \in Conns |-> "none"]
    /\ panicking = [c \in Conns |-> FALSE]
    /\ hist = [c \in Conns |-> <<>>]
    /\ router = NewRouter
    /\ registered = <<>>
    /\ request = NoRequest
    /\ routed = NoRouted
    /\ earlier = NoEarlier
    /\ response = NewResponse
    /\ calls = <<>>
    /\ wire = NoWire
    /\ ParserUnused
    /\ StaticUnused
    /\ EchoUnused

NextPool ==
    \/ \E t \in Conns : PoolCallPut(t)
    \/ \E t \in Conns : PoolCallGet(t)
    \/ \E t \in Conns : PoolCallClose(t)
    \/ \E t \in Conns : PoolLock(t)
    \/ \E t \in Conns : PoolPutSelect(t)
    \/ \E t \in Conns : PoolGetSelect(t)
    \/ \E t \in Conns : PoolCloseChan(t)
    \/ \E t \in Conns : PoolCloseRange(t)
    \/ \E t \in Conns : PoolCloseMake(t)
    \/ \E t \in Conns : PoolReturn(t)

SpecPool == InitPool /\ [][NextPool]_vars

(***************************** router harness ******************************)
\* A caller sets a router up with Use and AddRoute, as main does before it
\* starts the server, and then gives it requests.  The router is a new one or
\* the one main has built.
Methods == {<<"GET">>, <<"POST">>}
RoutePaths == {<<"/">>, <<"/", "static", "/">>}
RequestPaths == RoutePaths \cup {<<"/", "static", "/", "index", ".html">>}
RouteHandlers == {"handleRoot", "handleHello"}
Middlewares == {"A", "B"}

\* a parsed request for method and path, without headers or body
Req(method, path) ==
    [Method |-> method, Path |-> path, Version |-> <<"HTTP/1.1">>,
     Headers |-> EmptyMap, Body |-> <<>>]

\* Router.Use, before the first HandleRequest or after one; after one, the
\* request and result of that dispatch are kept as the earlier ones (of
\* a dispatch that reached a handler)
RouterUse(mw) ==
    /\ Len(router.middleware) < MaxMiddleware
    /\ request /= NoRequest => RouteHit(router, request)
    /\ router' = Use(router, mw)
    /\ IF request = NoRequest
       THEN UNCHANGED <<request, routed, earlier>>
       ELSE /\ earlier' = [req |-> request, resp |-> routed.resp, events |-> routed.events]
            /\ request' = NoRequest
            /\ routed' = NoRouted
    /\ UNCHANGED registered
    /\ UNCHANGED <<poolVars, harnessVars, proc, serverVars, responseVars, parserVars, staticVars, echoVars>>

RouterAddRoute(method, path, handler) ==
    /\ request = NoRequest /\ earlier = NoEarlier
    /\ Len(registered) < MaxRoutes
    /\ router' = AddRoute(router, method, path, handler)
    /\ registered' = Append(registered, <<method, path, handler>>)
    /\ UNCHANGED <<request, routed, earlier>>
    /\ UNCHANGED <<poolVars, harnessVars, proc, serverVars, responseVars, parserVars, staticVars, echoVars>>

RouterHandleRequest(req) ==
    /\ request' = req
    /\ routed' = [resp |-> HandleRequest(router, req).resp,
                  events |-> HandleRequest(router, req).events]
    /\ router' = HandleRequest(router, req).router
    /\ UNCHANGED <<registered, earlier>>
    /\ UNCHANGED <<poolVars, harnessVars, proc, serverVars, responseVars, parserVars, staticVars, echoVars>>

InitRouter ==
    /\ \/ router = NewRouter /\ registered = <<>>
       \/ router = MainRouter /\ registered = MainRoutes
    /\ request = NoRequest
    /\ routed = NoRouted
    /\ earlier = NoEarlier
    /\ response = NewResponse
    /\ calls = <<>>
    /\ wire = NoWire
    /\ ParserUnused
    /\ StaticUnused
    /\ EchoUnused
    /\ NewConnPool(ServerMaxConns)
    /\ open = [c \in AllConns |-> TRUE]
    /\ call = [t \in Tasks |-> NoCall]
    /\ held = [t \in Tasks |-> {}]
    /\ dialed = 0
    /\ proc = "running"
    /\ mainPc = "wait"
    /\ accepted = 0
    /\ acceptErr = FALSE
    /\ pc = [c \in Conns |-> "idle"]
    /\ rd = [c \in Conns |-> NoRead]
    /\ resp = [c \in Conns |-> NewResponse]
    /\ deadline = [c \in Conns |-> "none"]
    /\ panicking = [c \in Conns |-> FALSE]
    /\ hist = [c \in Conns |-> <<>>]

NextRouter ==
    \/ \E mw \in Middlewares : RouterUse(mw)
    \/ \E method \in Methods, path \in RoutePaths, handler \in RouteHandlers :
          RouterAddRoute(method, path, handler)
    \/ \E method \in Methods, path \in RequestPaths :
          RouterHandleRequest(Req(method, path))

SpecRouter == InitRouter /\ [][NextRouter]_vars

(**************************** response harness *****************************)
\* A caller builds one response with SetStatus, SetHeader and SetBody, as a
\* handler or TestResponse does, and then serializes it with Response.Write
\* or FormatResponse.
StatusCodes == {200, 404, 299}
HeaderKeys == {"Content-Type", "Content-Length"}
HeaderValues == {<<"text/plain">>, <<"9", "9">>}
Bodies == {<<>>, <<"h", "i">>, HelloBody}
ReasonTexts == {"OK", "Not Found"}

Building == Len(calls) < MaxCalls /\ wire = NoWire

ResponseSetStatus(code) ==
    /\ Building
    /\ response' = SetStatus(response, code)
    /\ calls' = Append(calls, <<"SetStatus", code>>)
    /\ UNCHANGED wire
    /\ UNCHANGED <<poolVars, harnessVars, proc, serverVars, routerVars, parserVars, staticVars, echoVars>>

ResponseSetHeader(key, value) ==
    /\ Building
    /\ response' = SetHeader(response, key, value)
    /\ calls' = Append(calls, <<"SetHeader", key, value>>)
    /\ UNCHANGED wire
    /\ UNCHANGED <<poolVars, harnessVars, proc, serverVars, routerVars, parserVars, staticVars, echoVars>>

\* resp.StatusText = text, the assignment the handlers make
ResponseSetStatusText(text) ==
    /\ Building
    /\ response' = [response EXCEPT !.StatusText = text]
    /\ calls' = Append(calls, <<"StatusText", text>>)
    /\ UNCHANGED wire
    /\ UNCHANGED <<poolVars, harnessVars, proc, serverVars, routerVars, parserVars, staticVars, echoVars>>

ResponseSetBody(body) ==
    /\ Building
    /\ response' = SetBody(response, body)
    /\ calls' = Append(calls, <<"SetBody", body>>)
    /\ UNCHANGED wire
    /\ UNCHANGED <<poolVars, harnessVars, proc, serverVars, routerVars, parserVars, staticVars, echoVars>>

ResponseWrite ==
    /\ \E order \in Orders(DOMAIN response.Headers) :
          wire' = [by |-> "Write", bytes |-> Write(response, order)]
    /\ UNCHANGED <<response, calls>>
    /\ UNCHANGED <<poolVars, harnessVars, proc, serverVars, routerVars, parserVars, staticVars, echoVars>>

ResponseFormat ==
    /\ \E order \in Orders(DOMAIN response.Headers) :
          wire' = [by |-> "FormatResponse", bytes |-> FormatResponse(response, order)]
    /\ UNCHANGED <<response, calls>>
    /\ UNCHANGED <<poolVars, harnessVars, proc, serverVars, routerVars, parserVars, staticVars, echoVars>>

InitResponse ==
    /\ response = NewResponse
    /\ calls = <<>>
    /\ wire = NoWire
    /\ ParserUnused
    /\ StaticUnused
    /\ EchoUnused
    /\ router = NewRouter
    /\ registered = <<>>
    /\ request = NoRequest
    /\ routed = NoRouted
    /\ earlier = NoEarlier
    /\ NewConnPool(ServerMaxConns)
    /\ open = [c \in AllConns |-> TRUE]
    /\ call = [t \in Tasks |-> NoCall]
    /\ held = [t \in Tasks |-> {}]
    /\ dialed = 0
    /\ proc = "running"
    /\ mainPc = "wait"
    /\ accepted = 0
    /\ acceptErr = FALSE
    /\ pc = [c \in Conns |-> "idle"]
    /\ rd = [c \in Conns |-> NoRead]
    /\ resp = [c \in Conns |-> NewResponse]
    /\ deadline = [c \in Conns |-> "none"]
    /\ panicking = [c \in Conns |-> FALSE]
    /\ hist = [c \in Conns |-> <<>>]

NextResponse ==
    \/ \E code \in StatusCodes : ResponseSetStatus(code)
    \/ \E key \in HeaderKeys, value \in HeaderValues : ResponseSetHeader(key, value)
    \/ \E text \in ReasonTexts : ResponseSetStatusText(text)
    \/ \E body \in Bodies : ResponseSetBody(body)
    \/ ResponseWrite
    \/ ResponseFormat

SpecResponse == InitResponse /\ [][NextResponse]_vars

(*************************** the request parser ****************************)
\* header lines of a request
MaxHeaders == 2

\* request lines, as the tokens joined by single spaces
RequestLines ==
    { <<<<"GET">>, <<"/">>, <<"HTTP/1.1">>>>,
      <<<<"POST">>, <<"/echo">>, <<"HTTP/1.1">>>>,
      <<<<"GET">>, <<"HTTP/1.1">>>>,
      <<<<"GET">>, <<"/">>, <<"HTTP/1.1">>, <<"x">>>>,
      <<<<"GET">>, <<"/">>, <<"HTTP/1.1">>, <<>>>> }

\* header lines, as name, delimiter and value
HeaderChoices ==
    { [name |-> <<"a">>, sep |-> COLONSP, value |-> <<"1">>],
      [name |-> <<"a">>, sep |-> COLONSP, value |-> <<"2">>],
      [name |-> <<"b">>, sep |-> COLONSP, value |-> <<"x", COLON, SP, "y">>],
      [name |-> ContentLengthKey, sep |-> COLONSP, value |-> <<"5">>],
      [name |-> <<"Host">>, sep |-> <<COLON>>, value |-> <<"localhost">>],
      [name |-> <<"a">>, sep |-> <<>>, value |-> <<>>] }

\* what stands between the header lines and the body
Separators == {CRLFCRLF, CRLF, <<LF, LF>>, <<>>}

\* request bodies
RequestBodies == {<<>>, <<"h", "i">>, <<"u", CR, LF, CR, LF, "v">>}

\* strings.Join(tokens, sep)
RECURSIVE Join(_, _)
Join(tokens, sep) ==
    IF tokens = <<>> THEN <<>>
    ELSE IF Len(tokens) = 1 THEN tokens[1]
    ELSE tokens[1] \o sep \o Join(Tail(tokens), sep)

\* the bytes of a request on the wire
RECURSIVE HeaderBytes(_)
HeaderBytes(hs) ==
    IF hs = <<>> THEN <<>>
    ELSE CRLF \o hs[1].name \o hs[1].sep \o hs[1].value \o HeaderBytes(Tail(hs))

Serialize(r) == Join(r.line, <<SP>>) \o HeaderBytes(r.headers) \o r.sep \o r.body

HeaderSeqs == UNION {[1..n -> HeaderChoices] : n \in 0..MaxHeaders}

\* http.ParseRequest(buffer[:n]), the call of handleConnection
CallParseRequest ==
    /\ parsed = NoParsed
    /\ parsed' = [by |-> "ParseRequest", err |-> ParseRequest(data).err,
                  req |-> ParseRequest(data).req]
    /\ UNCHANGED <<sent, data>>
    /\ UNCHANGED <<poolVars, harnessVars, proc, serverVars, routerVars, responseVars,
                   staticVars, echoVars>>

\* http.ParseRequest(data, tlsConn) of pkg/http/request.go
CallParseRequestTLS ==
    /\ parsed = NoParsed
    /\ parsed' = [by |-> "ParseRequestTLS", err |-> ParseRequestTLS(data).err,
                  req |-> ParseRequestTLS(data).req]
    /\ UNCHANGED <<sent, data>>
    /\ UNCHANGED <<poolVars, harnessVars, proc, serverVars, routerVars, responseVars,
                   staticVars, echoVars>>

InitParse ==
    /\ sent \in [line : RequestLines, headers : HeaderSeqs,
                  sep : Separators, body : RequestBodies]
    /\ data = Serialize(sent)
    /\ parsed = NoParsed
    /\ response = NewResponse
    /\ calls = <<>>
    /\ wire = NoWire
    /\ StaticUnused
    /\ EchoUnused
    /\ router = NewRouter
    /\ registered = <<>>
    /\ request = NoRequest
    /\ routed = NoRouted
    /\ earlier = NoEarlier
    /\ NewConnPool(ServerMaxConns)
    /\ open = [c \in AllConns |-> TRUE]
    /\ call = [t \in Tasks |-> NoCall]
    /\ held = [t \in Tasks |-> {}]
    /\ dialed = 0
    /\ proc = "running"
    /\ mainPc = "wait"
    /\ accepted = 0
    /\ acceptErr = FALSE
    /\ pc = [c \in Conns |-> "idle"]
    /\ rd = [c \in Conns |-> NoRead]
    /\ resp = [c \in Conns |-> NewResponse]
    /\ deadline = [c \in Conns |-> "none"]
    /\ panicking = [c \in Conns |-> FALSE]
    /\ hist = [c \in Conns |-> <<>>]

NextParse ==
    \/ CallParseRequest
    \/ CallParseRequestTLS

SpecParse == InitParse /\ [][NextParse]_vars

(******************************* properties ********************************)
\* handleConnection(c) is between its first statement and its return
InFlight(c) ==
    pc[c] \in {"start", "read", "readErr", "parse", "dispatch", "write", "errWrite"}

\* the events of one kind in hist[c]
Events(c, op) == SelectSeq(hist[c], LAMBDA e : e.op = op)

\* how often c sits in the idle queue
Queued(c) == Cardinality({i \in DOMAIN conns : conns[i] = c})

\* the Read on c gave bytes (or EOF) that ParseRequest rejects
ParseFailed(c) ==
    rd[c].err \in {"nil", "EOF"} /\ ParseRequest(rd[c].data).err /= ""

\* C1: every handling goroutine calls connPool.Put on its connection exactly
\* once, whatever path it takes to its end (read error, timeout, parse failure,
\* response written, failed write, panic), and only after its last use of the
\* connection: Put is the last event, and a finished goroutine's connection is
\* queued once in the pool or has been closed.
C1_PutExactlyOnce ==
    \A c \in Conns :
       /\ Len(Events(c, "put")) <= 1
       /\ (pc[c] = "idle" \/ InFlight(c)) =>
             /\ Events(c, "put") = <<>>
             /\ call[c] = NoCall
             /\ Queued(c) = 0
             /\ open[c]
       /\ pc[c] \in {"put", "done"} =>
             /\ Len(Events(c, "put")) = 1
             /\ hist[c][Len(hist[c])].op = "put"
       /\ pc[c] = "put" => call[c].op = "Put" /\ call[c].conn = c
       /\ pc[c] = "done" =>
             /\ call[c] = NoCall
             /\ (Queued(c) = 1 /\ open[c]) \/ (Queued(c) = 0 /\ ~open[c])

\* C1 witness: one goroutine ended after a failed read, another after a panic
C1_Witness ==
    /\ pc[1] = "done" /\ rd[1].err = "other"
    /\ pc[2] = "done" /\ panicking[2]

\* C2: the idle queue never holds more connections than the capacity given to
\* NewConnPool, in any interleaving of Put, Get and CloseIdleConnections.
C2_IdleWithinCapacity == Len(conns) <= maxConns /\ maxConns = PoolCap

\* C2 witness: a Put found the queue full and closed its connection
C2_Witness ==
    \E t \in Conns :
       /\ call[t].op = "Put" /\ call[t].at = "unlock"
       /\ ~open[call[t].conn]
       /\ Len(conns) = maxConns

\* C3: Put's select never blocks and never fails; with room in the queue it
\* appends the connection and closes nothing, at capacity it closes that
\* connection only and leaves the queue as it is.
C3_PutFrame ==
    [][\A t \in Conns :
         (call[t].op = "Put" /\ call[t].at = "body") =>
            /\ ENABLED PoolPutSelect(t)
            /\ call'[t].at = "unlock" =>
                  /\ ~call'[t].panic
                  /\ proc' = proc
                  /\ IF Len(conns) < maxConns
                     THEN conns' = Append(conns, call[t].conn) /\ open' = open
                     ELSE /\ conns' = conns
                          /\ open' = [open EXCEPT ![call[t].conn] = FALSE]]_vars

\* C3 witness: one Put has queued a connection and a later Put, at capacity,
\* has closed another
C3_Witness ==
    \E t \in Conns :
       /\ call[t].op = "Put" /\ call[t].at = "unlock"
       /\ ~open[call[t].conn]
       /\ conns /= <<>>
       /\ \A i \in DOMAIN conns : open[conns[i]] /\ conns[i] /= call[t].conn

\* C4: when the range loop of CloseIdleConnections has ended, the queue is
\* empty and every connection released before is closed; the new channel has
\* the capacity of the old one; a connection a handling goroutine is still
\* working on is neither queued nor closed.
C4_DrainClosesIdleOnly ==
    /\ (call[0].op = "Close" /\ call[0].at \in {"make", "unlock"}) =>
          /\ conns = <<>>
          /\ \A c \in Conns : pc[c] = "done" => ~open[c]
          /\ call[0].at = "unlock" => ~chClosed
    /\ maxConns = ServerMaxConns
    /\ \A c \in Conns : InFlight(c) => open[c] /\ Queued(c) = 0

\* C4 witness: the drain has closed the queued connection 1 while connection 2
\* is in flight
C4_Witness ==
    /\ call[0].op = "Close" /\ call[0].at = "unlock"
    /\ pc[1] = "done" /\ ~open[1]
    /\ pc[2] = "write"

\* C5: Get's select never blocks; with a connection queued it returns the head
\* of the queue and removes it; with none queued it returns at once what
\* net.Dial gave, no Put needed; the caller then owns what Get returned.
C5_GetNonBlocking ==
    [][\A t \in Conns :
         /\ (call[t].op = "Get" /\ call[t].at = "body") =>
               /\ ENABLED PoolGetSelect(t)
               /\ call'[t].at = "unlock" =>
                     IF conns /= <<>>
                     THEN call'[t].conn = Head(conns) /\ conns' = Tail(conns)
                     ELSE /\ conns' = conns
                          /\ call'[t].conn \in {NoConn, NumConns + dialed + 1}
         /\ (call[t].op = "Get" /\ call[t].at = "unlock" /\ call'[t] = NoCall) =>
               /\ held'[t] = held[t] \cup ({call[t].conn} \ {NoConn})
               /\ \A i \in DOMAIN conns : conns[i] /= call[t].conn]_vars

\* C5 witness: goroutine 2 owns connection 1, which it got from the queue, and
\* a Get on the empty queue has returned a dialled connection
C5_Witness ==
    /\ 1 \in held[2]
    /\ dialed = 1
    /\ \E t \in Conns : NumConns + 1 \in held[t]

\* C6: a connection whose Read timed out has had a 408 response written to it
\* by the time its goroutine ends.
C6_TimeoutYields408 ==
    \A c \in Conns :
       (pc[c] = "done" /\ rd[c].err = "timeout") =>
          \E i \in DOMAIN hist[c] : hist[c][i] = Ev("write", StatusRequestTimeout, TRUE)

\* C7: after a parse failure the goroutine composes the 400 response with the
\* text "Invalid request", hands exactly that one response to conn.Write and
\* never calls HandleRequest.
C7_ParseFailure400 ==
    \A c \in Conns :
       ParseFailed(c) =>
          /\ Events(c, "dispatch") = <<>>
          /\ pc[c] \in {"errWrite", "put", "done"} =>
                /\ resp[c].StatusCode = BadRequest
                /\ resp[c].StatusText = "Bad Request"
                /\ resp[c].Body = InvalidRequestMsg
          /\ pc[c] \in {"put", "done"} =>
                /\ Len(Events(c, "write")) = 1
                /\ Events(c, "write")[1].code = BadRequest

\* C7 witness: a malformed request line was answered with a 400 that was written
C7_Witness ==
    \E c \in Conns :
       /\ pc[c] = "done"
       /\ rd[c].data = ReqBadLine
       /\ Events(c, "write") = <<Ev("write", BadRequest, TRUE)>>

\* C8: after a panic in a handler or middleware the process keeps running, the
\* connection has been released once and a 500 response has been written to it.
C8_PanicContained ==
    \A c \in Conns :
       (panicking[c] /\ pc[c] = "done") =>
          /\ proc /= "crashed"
          /\ Len(Events(c, "put")) = 1
          /\ \E i \in DOMAIN hist[c] : hist[c][i] = Ev("write", InternalServerError, TRUE)

\* C9: a connection whose Read failed with an error other than a timeout or
\* EOF has been closed when its goroutine ends, with nothing written to it and
\* nothing dispatched.
C9_ReadErrorAborts ==
    \A c \in Conns :
       (pc[c] = "done" /\ rd[c].err = "other") =>
          /\ ~open[c]
          /\ Events(c, "write") = <<>>
          /\ Events(c, "dispatch") = <<>>

\* C10: a connection on which the write of the response failed has been closed
\* when its goroutine ends; the failure was logged, there was one write only,
\* and the process keeps running.
C10_WriteFailureCloses ==
    \A c \in Conns :
       (pc[c] = "done" /\ \E i \in DOMAIN hist[c] :
                             hist[c][i].op = "write" /\ ~hist[c][i].ok) =>
          /\ ~open[c]
          /\ Len(Events(c, "write")) = 1
          /\ Events(c, "log") /= <<>>
          /\ proc /= "crashed"

\* C11: once main has received the shutdown signal the listener hands out no
\* further connection, and main calls connPool.CloseIdleConnections().
C11_ShutdownStopsAccept ==
    [][/\ mainPc /= "wait" => accepted' = accepted
       /\ (mainPc = "wait" /\ mainPc' /= "wait") =>
             mainPc' = "draining" /\ call'[0].op = "Close"]_vars

\* C12: when the process has exited after the shutdown signal, no handling
\* goroutine was cut short: each one that was started has written what it had
\* to write and has released its connection.
C12_InFlightCompletes ==
    proc = "exited" => \A c \in Conns : pc[c] \in {"idle", "done"}

\* C13: a failed Accept changes nothing but the loop's err: the process keeps
\* running, no goroutine is started or stopped, and the loop is at its next
\* Accept; a connection accepted after a failure gets a handling goroutine of
\* its own.
C13_AcceptFailureTolerated ==
    [][/\ (~acceptErr /\ acceptErr') =>
             /\ proc' = proc
             /\ accepted' = accepted
             /\ pc' = pc
       /\ (acceptErr /\ proc = "running") => ENABLED Accept
       /\ (acceptErr /\ accepted' /= accepted) =>
             /\ accepted' = accepted + 1
             /\ pc[accepted'] = "idle" /\ pc'[accepted'] = "start"
             /\ \A c \in Conns \ {accepted'} : pc'[c] = pc[c]]_vars

\* C13 witness: connection 1 was accepted and handled, the next Accept failed,
\* and the loop is at its Accept again
C13_Witness ==
    /\ acceptErr
    /\ proc = "running"
    /\ accepted = 1
    /\ pc[1] = "done"

\* HandleRequest has been called and its result is in routed
Dispatched == request /= NoRequest

\* the AddRoute calls made for the pair (method, path), as indices of registered
RegistrationsOf(method, path) ==
    {i \in DOMAIN registered :
        registered[i][1] = method /\ registered[i][2] = path}

\* the handlers HandleRequest called, in order
HandlersCalled ==
    SelectSeq(routed.events, LAMBDA e : e[2] = "call")

\* C14: a dispatch that hits a route runs the middleware's before-effects in
\* registration order, then the route's handler, then the after-effects in
\* the reverse order: the first middleware registered is the outermost
\* wrapper, the handler the innermost function; for [A, B] and H the order is
\* A-before, B-before, H, B-after, A-after.
C14_MiddlewareOrder ==
    (Dispatched /\ RegistrationsOf(request.Method, request.Path) /= {}) =>
       LET mw == router.middleware
           n == Len(mw)
       IN /\ Len(routed.events) = 2 * n + 1
          /\ \A i \in 1..n :
                /\ routed.events[i] = <<mw[i], "before">>
                /\ routed.events[2 * n + 2 - i] = <<mw[i], "after">>
          /\ routed.events[n + 1][2] = "call"
          /\ (mw = <<"A", "B">> /\ routed.events[n + 1][1] = "handleRoot") =>
                routed.events = << <<"A", "before">>, <<"B", "before">>,
                                   <<"handleRoot", "call">>,
                                   <<"B", "after">>, <<"A", "after">> >>

\* C14 witness: middleware [A, B], a route to handleRoot, and a dispatch that
\* ran all five steps
C14_Witness ==
    /\ router.middleware = <<"A", "B">>
    /\ Dispatched
    /\ Len(routed.events) = 5
    /\ routed.events[3] = <<"handleRoot", "call">>

\* C15: whatever routes and middleware the router has, a request whose
\* (method, path) pair was never registered gets status 404, reason
\* "Not Found" and body "404 - Not Found".
C15_UnregisteredIs404 ==
    (Dispatched /\ RegistrationsOf(request.Method, request.Path) = {}) =>
       /\ routed.resp.StatusCode = 404
       /\ routed.resp.StatusText = "Not Found"
       /\ routed.resp.Body = NotFoundBody

\* C15 witness: a router with routes and middleware answered an unregistered
\* pair with the 404 response
C15_Witness ==
    /\ Dispatched
    /\ router.middleware /= <<>>
    /\ registered /= <<>>
    /\ RegistrationsOf(request.Method, request.Path) = {}
    /\ routed.resp.Body = NotFoundBody

C17_StaticPrefixServed ==
    (registered = MainRoutes
        /\ request = Req(<<"GET">>, <<"/", "static", "/", "index", ".html">>)) =>
       /\ HandlersCalled = << <<"staticHandler", "call">> >>
       /\ routed.resp = StaticFileHandler(request).resp

\* C18: the handler a pair has is the one of the latest AddRoute for that pair
\* (so a second AddRoute replaces the first and touches no other pair), a pair
\* never registered has none, and a dispatch calls that latest handler alone.
C18_LastRegistrationWins ==
    LET Latest(method, path) ==
            registered[CHOOSE i \in RegistrationsOf(method, path) :
                          \A j \in RegistrationsOf(method, path) : j <= i][3]
        InTable(method, path) ==
            method \in DOMAIN router.routes /\ path \in DOMAIN router.routes[method]
        pairs == (Methods \X RequestPaths)
                    \cup {<<registered[i][1], registered[i][2]>> : i \in DOMAIN registered}
                    \cup UNION {{<<m, p>> : p \in DOMAIN router.routes[m]} :
                                  m \in DOMAIN router.routes}
    IN /\ \A pr \in pairs :
             IF RegistrationsOf(pr[1], pr[2]) = {}
             THEN ~InTable(pr[1], pr[2])
             ELSE InTable(pr[1], pr[2])
                     /\ router.routes[pr[1]][pr[2]] = Latest(pr[1], pr[2])
       /\ (Dispatched /\ RegistrationsOf(request.Method, request.Path) /= {}) =>
             HandlersCalled = << <<Latest(request.Method, request.Path), "call">> >>

\* C18 witness: two AddRoute calls for one pair with different handlers, and a
\* dispatch on that pair that called the second
C18_Witness ==
    /\ Len(registered) = 2
    /\ registered[1][1] = registered[2][1]
    /\ registered[1][2] = registered[2][2]
    /\ registered[1][3] /= registered[2][3]
    /\ request.Method = registered[2][1]
    /\ request.Path = registered[2][2]
    /\ HandlersCalled = << <<registered[2][3], "call">> >>

\* the setter calls of one kind, as indices of calls
CallsOf(kind) == {i \in DOMAIN calls : calls[i][1] = kind}

\* the latest index of a non-empty set of indices
Latest(indices) == CHOOSE i \in indices : \A j \in indices : j <= i

\* the number a string of decimal digits denotes, -1 for any other string
RECURSIVE Atoi(_)
Atoi(digits) ==
    LET value == [d \in {"0", "1", "2", "3", "4", "5", "6", "7", "8", "9"} |->
                     CASE d = "0" -> 0 [] d = "1" -> 1 [] d = "2" -> 2
                       [] d = "3" -> 3 [] d = "4" -> 4 [] d = "5" -> 5
                       [] d = "6" -> 6 [] d = "7" -> 7 [] d = "8" -> 8
                       [] d = "9" -> 9]
        last == digits[Len(digits)]
        rest == IF Len(digits) = 1 THEN 0
                ELSE Atoi(SubSeq(digits, 1, Len(digits) - 1))
    IN IF digits = <<>> \/ last \notin DOMAIN value \/ rest < 0 THEN -1
       ELSE 10 * rest + value[last]

\* the lines of the serialized head: the status line, then the header lines
WireLines == Split(SplitN2(wire.bytes, CRLFCRLF)[1], CRLF)

\* the values the serialized header lines give for a key, in order
WireValues(key) ==
    LET lines == Tail(WireLines)
        mine == SelectSeq(lines, LAMBDA l : HasPrefix(l, <<key, COLON, SP>>))
    IN [i \in DOMAIN mine |-> TrimPrefix(mine[i], <<key, COLON, SP>>)]

\* C19: once SetBody has been called, Content-Length is the decimal length of
\* the latest body, whatever Content-Length an earlier SetHeader or SetBody
\* had written, unless SetHeader("Content-Length", v) came after that SetBody,
\* in which case it is the latest such v; the serialized response has exactly
\* one Content-Length line, with that value.
C19_ContentLengthFollowsBody ==
    CallsOf("SetBody") /= {} =>
       LET b == Latest(CallsOf("SetBody"))
           over == {i \in CallsOf("SetHeader") :
                       i > b /\ calls[i][2] = "Content-Length"}
           length == response.Headers["Content-Length"]
       IN /\ response.Body = calls[b][2]
          /\ IF over = {}
             THEN /\ Atoi(length) = Len(calls[b][2])
                  /\ Len(length) > 1 => length[1] /= "0"
             ELSE length = calls[Latest(over)][3]
          /\ wire /= NoWire => WireValues("Content-Length") = <<length>>

\* C19 witness: a second SetBody replaced the Content-Length of the first, and
\* the serialized response says 17, the length of the second body
C19_Witness ==
    /\ Len(calls) = 2
    /\ calls[1] = <<"SetBody", <<"h", "i">> >>
    /\ calls[2] = <<"SetBody", HelloBody>>
    /\ wire /= NoWire
    /\ WireValues("Content-Length") = << <<"1", "7">> >>

\* C20: a response whose status was set with SetStatus only serializes to a
\* status line "<version> <code> <reason>" whose reason is the registry's
\* phrase for the code ("HTTP/1.1 200 OK" for 200), and is empty for a code
\* the registry does not have.
C20_StatusLineFromRegistry ==
    (wire /= NoWire /\ CallsOf("SetStatus") /= {} /\ CallsOf("StatusText") = {}) =>
       LET code == calls[Latest(CallsOf("SetStatus"))][2] IN
       /\ WireLines[1] = <<"HTTP/1.1", SP>> \o Itoa(code) \o <<SP>>
                            \o Phrase(StatusText(code))
       /\ code = 200 => WireLines[1] = <<"HTTP/1.1", SP, "2", "0", "0", SP, "OK">>
       /\ code = 299 => WireLines[1] = <<"HTTP/1.1", SP, "2", "9", "9", SP>>

\* C21: FormatResponse gives output for every response, and the output is the
\* status line and CR LF, then one "<name>: <value>" CR LF line for each entry
\* of the header map, each once, in some order, then an empty line CR LF,
\* then the body bytes as they are.
C21_FormatLayout ==
    /\ ENABLED ResponseFormat
    /\ wire.by = "FormatResponse" =>
          LET parts == SplitN2(wire.bytes, CRLFCRLF)
              lines == Split(parts[1], CRLF)
              keys == DOMAIN response.Headers
          IN /\ Len(parts) = 2
             /\ parts[2] = response.Body
             /\ lines[1] = <<response.Version, SP>> \o Itoa(response.StatusCode)
                              \o <<SP>> \o Phrase(response.StatusText)
             /\ Len(lines) = 1 + Cardinality(keys)
             /\ \A k \in keys :
                   Cardinality({i \in 2..Len(lines) :
                                   lines[i] = <<k, COLON, SP>> \o response.Headers[k]}) = 1

\* C21 witness: a response with reason "OK", two headers and a body was
\* serialized by FormatResponse
C21_Witness ==
    /\ wire.by = "FormatResponse"
    /\ response.StatusText = "OK"
    /\ Cardinality(DOMAIN response.Headers) = 2
    /\ response.Body = <<"h", "i">>
    /\ SubSeq(wire.bytes, Len(wire.bytes) - 5, Len(wire.bytes))
          = <<CR, LF, CR, LF, "h", "i">>

(************************* the static file handler *************************)
\* bytes of a request path
MaxPathLen == 6

\* what a request path starts with
PathPrefixes == {<<>>, <<"/", "static">>}

\* what a request path goes on with
PathPieces == {<<"/">>, <<".">>, <<"/", ".", ".">>, <<"/", "css">>,
               <<"/", "index", ".html">>, <<"/", "x", ".txt">>}

\* one more piece of the request path
StaticExtendPath(piece) ==
    /\ served = NoServed
    /\ Len(target) + Len(piece) <= MaxPathLen
    /\ target' = target \o piece
    /\ UNCHANGED served
    /\ UNCHANGED <<poolVars, harnessVars, proc, serverVars, routerVars, responseVars,
                   parserVars, echoVars>>

\* StaticFileHandler(publicDir)(req) for a GET of the path
StaticServe ==
    /\ served = NoServed
    /\ served' = [called |-> TRUE,
                  opened |-> StaticFileHandler(Req(<<"GET">>, target)).opened,
                  resp |-> StaticFileHandler(Req(<<"GET">>, target)).resp]
    /\ UNCHANGED target
    /\ UNCHANGED <<poolVars, harnessVars, proc, serverVars, routerVars, responseVars,
                   parserVars, echoVars>>

InitStatic ==
    /\ target \in PathPrefixes
    /\ served = NoServed
    /\ response = NewResponse
    /\ calls = <<>>
    /\ wire = NoWire
    /\ ParserUnused
    /\ EchoUnused
    /\ router = NewRouter
    /\ registered = <<>>
    /\ request = NoRequest
    /\ routed = NoRouted
    /\ earlier = NoEarlier
    /\ NewConnPool(ServerMaxConns)
    /\ open = [c \in AllConns |-> TRUE]
    /\ call = [t \in Tasks |-> NoCall]
    /\ held = [t \in Tasks |-> {}]
    /\ dialed = 0
    /\ proc = "running"
    /\ mainPc = "wait"
    /\ accepted = 0
    /\ acceptErr = FALSE
    /\ pc = [c \in Conns |-> "idle"]
    /\ rd = [c \in Conns |-> NoRead]
    /\ resp = [c \in Conns |-> NewResponse]
    /\ deadline = [c \in Conns |-> "none"]
    /\ panicking = [c \in Conns |-> FALSE]
    /\ hist = [c \in Conns |-> <<>>]

NextStatic ==
    \/ \E piece \in PathPieces : StaticExtendPath(piece)
    \/ StaticServe

SpecStatic == InitStatic /\ [][NextStatic]_vars

(*************************** the TCP echo server ***************************)
\* reads of data on one connection
MaxChunks == 2

\* what one conn.Read puts into buffer[:n]
Chunks == {<<"a">>, <<"b", "c">>}

\* the handler of c has returned and its deferred conn.Close() has run
EchoDone(c) == echoPc[c] \in {"eof", "readerr", "writeerr"}

\* listener.Accept() returns a connection: go handleConnection(conn)
EchoAccept ==
    /\ echoListener \in {"listening", "retry"}
    /\ echoAccepted < NumConns
    /\ echoListener' = "listening"
    /\ echoAccepted' = echoAccepted + 1
    /\ echoPc' = [echoPc EXCEPT ![echoAccepted + 1] = "read"]
    /\ UNCHANGED <<received, echoed, echoOpen>>
    /\ UNCHANGED <<poolVars, harnessVars, proc, serverVars, routerVars, responseVars,
                   parserVars, staticVars>>

\* listener.Accept() returns an error: it is printed and the loop continues
EchoAcceptFail ==
    /\ echoListener = "listening"
    /\ echoListener' = "retry"
    /\ UNCHANGED <<echoAccepted, echoPc, received, echoed, echoOpen>>
    /\ UNCHANGED <<poolVars, harnessVars, proc, serverVars, routerVars, responseVars,
                   parserVars, staticVars>>

\* conn.Read(buffer) returns n > 0 bytes and no error
EchoRead(c, chunk) ==
    /\ echoPc[c] = "read"
    /\ Len(received[c]) < MaxChunks
    /\ received' = [received EXCEPT ![c] = Append(@, chunk)]
    /\ echoPc' = [echoPc EXCEPT ![c] = "write"]
    /\ UNCHANGED <<echoListener, echoAccepted, echoed, echoOpen>>
    /\ UNCHANGED <<poolVars, harnessVars, proc, serverVars, routerVars, responseVars,
                   parserVars, staticVars>>

\* conn.Read(buffer) returns io.EOF or another error: return, and the
\* deferred conn.Close() runs
EchoReadEnd(c, err) ==
    /\ echoPc[c] = "read"
    /\ echoPc' = [echoPc EXCEPT ![c] = err]
    /\ echoOpen' = [echoOpen EXCEPT ![c] = FALSE]
    /\ UNCHANGED <<echoListener, echoAccepted, received, echoed>>
    /\ UNCHANGED <<poolVars, harnessVars, proc, serverVars, routerVars, responseVars,
                   parserVars, staticVars>>

\* mutant of EchoWrite: a written chunk is echoed with its bytes reversed
EchoWriteReversed(c, n) ==
    LET chunk == received[c][Len(received[c])]
        out == [i \in 1..Len(chunk) |-> chunk[Len(chunk) + 1 - i]]
    IN /\ echoPc[c] = "write"
       /\ n <= Len(chunk)
       /\ echoed' = [echoed EXCEPT ![c] = @ \o Slice(out, 1, n)]
       /\ IF n = Len(chunk)
          THEN /\ echoPc' = [echoPc EXCEPT ![c] = "read"]
               /\ UNCHANGED echoOpen
          ELSE /\ echoPc' = [echoPc EXCEPT ![c] = "writeerr"]
               /\ echoOpen' = [echoOpen EXCEPT ![c] = FALSE]
       /\ UNCHANGED <<echoListener, echoAccepted, received>>
       /\ UNCHANGED <<poolVars, harnessVars, proc, serverVars, routerVars, responseVars,
                      parserVars, staticVars>>

\* conn.Write(buffer[:n]): all the bytes are written and the loop goes on,
\* or the write fails after fewer of them and the handler returns
EchoWrite(c, n) ==
    LET chunk == received[c][Len(received[c])]
    IN /\ echoPc[c] = "write"
       /\ n <= Len(chunk)
       /\ echoed' = [echoed EXCEPT ![c] = @ \o Slice(chunk, 1, n)]
       /\ IF n = Len(chunk)
          THEN /\ echoPc' = [echoPc EXCEPT ![c] = "read"]
               /\ UNCHANGED echoOpen
          ELSE /\ echoPc' = [echoPc EXCEPT ![c] = "writeerr"]
               /\ echoOpen' = [echoOpen EXCEPT ![c] = FALSE]
       /\ UNCHANGED <<echoListener, echoAccepted, received>>
       /\ UNCHANGED <<poolVars, harnessVars, proc, serverVars, routerVars, responseVars,
                      parserVars, staticVars>>

InitEcho ==
    /\ EchoUnused
    /\ ParserUnused
    /\ StaticUnused
    /\ response = NewResponse
    /\ calls = <<>>
    /\ wire = NoWire
    /\ router = NewRouter
    /\ registered = <<>>
    /\ request = NoRequest
    /\ routed = NoRouted
    /\ earlier = NoEarlier
    /\ NewConnPool(ServerMaxConns)
    /\ open = [c \in AllConns |-> TRUE]
    /\ call = [t \in Tasks |-> NoCall]
    /\ held = [t \in Tasks |-> {}]
    /\ dialed = 0
    /\ proc = "running"
    /\ mainPc = "wait"
    /\ accepted = 0
    /\ acceptErr = FALSE
    /\ pc = [c \in Conns |-> "idle"]
    /\ rd = [c \in Conns |-> NoRead]
    /\ resp = [c \in Conns |-> NewResponse]
    /\ deadline = [c \in Conns |-> "none"]
    /\ panicking = [c \in Conns |-> FALSE]
    /\ hist = [c \in Conns |-> <<>>]

NextEcho ==
    \/ EchoAccept
    \/ EchoAcceptFail
    \/ \E c \in Conns, chunk \in Chunks : EchoRead(c, chunk)
    \/ \E c \in Conns, err \in {"eof", "readerr"} : EchoReadEnd(c, err)
    \/ \E c \in Conns, chunk \in Chunks : \E n \in 0..Len(chunk) : EchoWrite(c, n)

SpecEcho == InitEcho /\ [][NextEcho]_vars

(**************************** parser properties ****************************)
\* the buffer contains CR LF CR LF
HasSeparator == \E i \in 1..(Len(data) - 3) : SubSeq(data, i, i + 3) = CRLFCRLF

\* the header block: the bytes before the first CR LF CR LF
HeaderBlock == SplitN2(data, CRLFCRLF)[1]

\* the lines of the header block
BlockLines == Split(HeaderBlock, CRLF)

\* the bytes after the first CR LF CR LF
AfterSeparator ==
    LET i == CHOOSE k \in 1..(Len(data) - 3) :
                /\ SubSeq(data, k, k + 3) = CRLFCRLF
                /\ \A j \in 1..(k - 1) : SubSeq(data, j, j + 3) /= CRLFCRLF
    IN Slice(data, i + 4, Len(data))

\* the header block is a three-token request line and lines holding ": "
BlockWellFormed ==
    /\ HasSeparator
    /\ Len(Split(BlockLines[1], <<SP>>)) = 3
    /\ \A i \in 2..Len(BlockLines) : Contains(BlockLines[i], COLONSP)

\* the mapping of the header lines hs, a name bound to its last value
LastWriteWins(hs) ==
    [n \in {hs[i].name : i \in 1..Len(hs)} |->
        hs[CHOOSE i \in 1..Len(hs) :
              /\ hs[i].name = n
              /\ \A j \in (i + 1)..Len(hs) : hs[j].name /= n].value]

\* the request R is well-formed: three tokens without spaces or line breaks,
\* header lines "<name>: <value>" without line breaks, names without ": "
WellFormed(r) ==
    /\ Len(r.line) = 3
    /\ \A i \in 1..3 : r.line[i] /= <<>> /\ \A k \in 1..Len(r.line[i]) : ~IsSpace(r.line[i][k])
    /\ \A i \in 1..Len(r.headers) :
          /\ r.headers[i].sep = COLONSP
          /\ ~Contains(r.headers[i].name, COLONSP)
          /\ \A k \in 1..Len(r.headers[i].name) : r.headers[i].name[k] \notin {CR, LF}
          /\ \A k \in 1..Len(r.headers[i].value) : r.headers[i].value[k] \notin {CR, LF}

\* C22: for every buffer that does not contain CR LF CR LF, ParseRequest
\* returns an error and no request.
C22_NoSeparatorIsError ==
    (parsed.by /= "none" /\ ~HasSeparator) =>
        (parsed.err /= "" /\ parsed.req = NoRequest)

\* C23: ParseRequest fails when the first line of the header block does not
\* split into exactly three tokens, and otherwise the three tokens are the
\* method, path and version of the request, as they are.
C23_RequestLineThreeTokens ==
    (parsed.by /= "none" /\ HasSeparator) =>
        LET tokens == Split(BlockLines[1], <<SP>>) IN
        IF Len(tokens) /= 3 THEN parsed.err /= ""
        ELSE parsed.err = "" =>
                <<parsed.req.Method, parsed.req.Path, parsed.req.Version>> = tokens

\* C24: a header-block line after the request line without ": " makes
\* ParseRequest fail; otherwise each such line gives a header whose name is
\* the bytes before its first ": " and whose value is the bytes after it,
\* and a block of the request line only parses with zero headers.
C24_HeaderLinesSplit ==
    (parsed.by /= "none" /\ HasSeparator /\ Len(Split(BlockLines[1], <<SP>>)) = 3) =>
        LET Name(i) == Slice(BlockLines[i], 1, IndexOf(BlockLines[i], COLONSP) - 1)
            Value(i) == Slice(BlockLines[i], IndexOf(BlockLines[i], COLONSP) + 2,
                              Len(BlockLines[i]))
            rows == 2..Len(BlockLines)
        IN IF \E i \in rows : ~Contains(BlockLines[i], COLONSP) THEN parsed.err /= ""
           ELSE /\ parsed.err = ""
                /\ DOMAIN parsed.req.Headers = {Name(i) : i \in rows}
                /\ \A i \in rows :
                      parsed.req.Headers[Name(i)] \in {Value(j) : j \in {k \in rows : Name(k) = Name(i)}}

\* C25: the body of the parsed request is the bytes after the first
\* CR LF CR LF of the buffer, with or without a Content-Length header and
\* whatever it declares, and no body makes the parse fail.
C25_BodyVerbatim ==
    (parsed.by /= "none" /\ BlockWellFormed) =>
        /\ parsed.err = ""
        /\ parsed.req.Body = AfterSeparator

\* C26: when a header name occurs more than once, the parsed request maps
\* the name to the value of its last occurrence, and the header map has one
\* entry per distinct name, keyed as received.
C26_LastOccurrenceWins ==
    (parsed.by = "ParseRequest" /\ parsed.err = "" /\ sent.sep = CRLFCRLF) =>
        /\ DOMAIN parsed.req.Headers = {sent.headers[i].name : i \in 1..Len(sent.headers)}
        /\ \A i \in 1..Len(sent.headers) :
              (\A j \in (i + 1)..Len(sent.headers) :
                    sent.headers[j].name /= sent.headers[i].name)
                 => parsed.req.Headers[sent.headers[i].name] = sent.headers[i].value

\* C26 witness: a request that names the header "a" twice, with the values
\* "1" and then "2", was parsed
C26_Witness ==
    /\ parsed.by = "ParseRequest"
    /\ parsed.err = ""
    /\ Len(sent.headers) = 2
    /\ sent.headers[1].name = <<"a">> /\ sent.headers[1].value = <<"1">>
    /\ sent.headers[2].name = <<"a">> /\ sent.headers[2].value = <<"2">>
    /\ parsed.req.Headers[<<"a">>] = <<"2">>

\* C27: parsing the wire bytes of a well-formed request R gives the method,
\* path and version of R and the header mapping of R, duplicates resolved
\* last-write-wins.
C27_RoundTrip ==
    (parsed.by = "ParseRequest" /\ WellFormed(sent) /\ sent.sep = CRLFCRLF) =>
        /\ parsed.err = ""
        /\ parsed.req.Method = sent.line[1]
        /\ parsed.req.Path = sent.line[2]
        /\ parsed.req.Version = sent.line[3]
        /\ parsed.req.Headers = LastWriteWins(sent.headers)

\* C27 witness: a well-formed POST with two different headers, one of them
\* with ": " in its value, and a body was serialized and parsed
C27_Witness ==
    /\ parsed.by = "ParseRequest"
    /\ WellFormed(sent)
    /\ sent.sep = CRLFCRLF
    /\ sent.line[1] = <<"POST">>
    /\ Cardinality(DOMAIN parsed.req.Headers) = 2
    /\ <<"b">> \in DOMAIN parsed.req.Headers
    /\ parsed.req.Body = <<"h", "i">>

(************************ static handler properties ************************)
\* the segments of the request path after removal of the "/static" prefix
PathSegments == Split(TrimPrefix(target, <<"/", "static">>), <<"/">>)

\* C28: when the request path, after removal of the "/static" prefix, has a
\* parent-directory segment "..", the static file handler returns the 404
\* response and opens no file.
C28_TraversalRejected ==
    (served.called /\ \E i \in 1..Len(PathSegments) : PathSegments[i] = <<".", ".">>) =>
        /\ served.resp = NotFoundResponse
        /\ ~served.opened

\* C28 witness: the handler was called for "/static/.." and answered 404
C28_Witness ==
    /\ served.called
    /\ target = <<"/", "static", "/", ".", ".">>
    /\ served.resp.StatusCode = 404
    /\ ~served.opened

(************************* echo server properties **************************)
\* the bytes of the chunks cs, in order
RECURSIVE Flat(_)
Flat(cs) == IF cs = <<>> THEN <<>> ELSE cs[1] \o Flat(Tail(cs))

\* s is a prefix of t, and shorter
StrictPrefix(s, t) == Len(s) < Len(t) /\ s = SubSeq(t, 1, Len(s))

\* C29: in the TCP echo server, the bytes written to a connection are the
\* chunks read from it, unchanged and in the order received: all of them
\* while the handler waits for a read and when it ended at EOF or a read
\* error, all but the chunk being written while a write is due, which is
\* then made, and all but the unwritten rest of the last chunk when a write
\* failed. A connection is closed exactly when its handler has ended, and
\* the accept loop never stops, whatever happened to other connections.
C29_EchoUnchanged ==
    /\ \A c \in Conns :
          LET got == received[c]
              before == Flat(SubSeq(got, 1, Len(got) - 1))
          IN /\ echoPc[c] \in {"read", "eof", "readerr"} => echoed[c] = Flat(got)
             /\ echoPc[c] = "write" =>
                   /\ echoed[c] = before
                   /\ ENABLED EchoWrite(c, Len(got[Len(got)]))
             /\ echoPc[c] = "writeerr" =>
                   /\ StrictPrefix(echoed[c], Flat(got))
                   /\ Len(echoed[c]) >= Len(before)
             /\ echoOpen[c] <=> ~EchoDone(c)
    /\ echoListener /= "stopped"
    /\ echoAccepted < NumConns => ENABLED EchoAccept

\* C29 witness: the first connection got "a" and then "bc" back and ended at
\* EOF, a later Accept failed, and the second connection has been accepted
\* and got its chunk "bc" back
C29_Witness ==
    /\ received[1] = <<<<"a">>, <<"b", "c">>>>
    /\ echoed[1] = <<"a", "b", "c">>
    /\ echoPc[1] = "eof"
    /\ ~echoOpen[1]
    /\ echoListener = "retry"
    /\ echoPc[2] = "read"
    /\ echoed[2] = <<"b", "c">>

(*********************** handling task step order **************************)
\* the steps of the task of c so far, without the log lines
Steps(c) == SelectSeq(hist[c], LAMBDA e : e.op /= "log")

\* the place of a step in the order of handleConnection
StepRank(op) ==
    CASE op = "deadline" -> 1
      [] op = "read" -> 2
      [] op = "parse" -> 3
      [] op = "dispatch" -> 4
      [] op = "write" -> 5
      [] op = "put" -> 6

\* a step of kind op with the result ok is among the steps h
Did(h, op, ok) == \E i \in 1..Len(h) : h[i].op = op /\ h[i].ok = ok

\* C30: each handling task makes its steps in the order set deadline, one
\* read, parse, then dispatch and the write of the dispatched response when
\* the parse succeeded, or the write of an error response without a dispatch
\* when it failed, then release; each step is made at most once and only
\* after the steps before it, and no read, dispatch or write follows the
\* release. A task whose read fails or whose handler panics goes to the
\* release from there.
C30_StepOrder ==
    \A c \in Conns :
       LET h == Steps(c)
           released == pc[c] \in {"put", "done"}
       IN
       /\ \A i \in 1..(Len(h) - 1) : StepRank(h[i].op) < StepRank(h[i + 1].op)
       /\ \A i \in 1..Len(h) :
             /\ h[i].op = "read" => Did(h, "deadline", TRUE)
             /\ h[i].op = "parse" => Did(h, "read", TRUE)
             /\ h[i].op = "dispatch" => Did(h, "parse", TRUE)
             /\ h[i].op = "write" =>
                   \/ Did(h, "dispatch", TRUE)
                   \/ Did(h, "parse", FALSE) /\ h[i].code = BadRequest
                   \/ Did(h, "read", FALSE) /\ h[i].code = StatusRequestTimeout
             /\ h[i].op = "put" =>
                   \/ \E k \in 1..Len(h) : h[k].op = "write"
                   \/ Did(h, "read", FALSE)
                   \/ Did(h, "dispatch", FALSE)
       /\ Did(h, "parse", FALSE) => ~Did(h, "dispatch", TRUE) /\ ~Did(h, "dispatch", FALSE)
       /\ released <=> Did(h, "put", TRUE)
       /\ released =>
             ~ENABLED Read(c) /\ ~ENABLED Dispatch(c) /\ ~ENABLED WriteResponse(c)
                /\ ~ENABLED HandleHTTPError(c)

\* C30 witness: the first task went through all six steps and the second,
\* whose request did not parse, wrote the 400 without a dispatch; both have
\* released their connection
C30_Witness ==
    /\ [i \in 1..Len(Steps(1)) |-> Steps(1)[i].op]
          = <<"deadline", "read", "parse", "dispatch", "write", "put">>
    /\ [i \in 1..Len(Steps(2)) |-> Steps(2)[i].op]
          = <<"deadline", "read", "parse", "write", "put">>
    /\ Steps(2)[4].code = BadRequest
    /\ pc[1] = "done" /\ pc[2] = "done"

(************************* pool mutual exclusion ***************************)
\* goroutine t is between p.mu.Lock() and the deferred p.mu.Unlock()
InCritical(t) == call[t].at \in {"body", "range", "make", "unlock"}

\* C31: Put, Get and CloseIdleConnections on one pool exclude each other: at
\* most one caller is between Lock and Unlock, and only that caller changes
\* the idle queue, the channel or a connection's open status, so every
\* interleaving leaves what the calls leave when made one at a time in the
\* order of their Locks; the channel is closed only inside a
\* CloseIdleConnections holding the mutex, and no Put sends on it (no Put
\* panics).
C31_MutualExclusion ==
    /\ [](/\ \A s, t \in Tasks : (InCritical(s) /\ InCritical(t)) => s = t
          /\ \A t \in Tasks : InCritical(t) <=> mu = t
          /\ chClosed => \E t \in Tasks :
                            mu = t /\ call[t].op = "Close" /\ call[t].at \in {"range", "make"}
          /\ \A t \in Tasks : ~call[t].panic
          /\ proc = "running")
    /\ [][(<<conns, chClosed, open>>' /= <<conns, chClosed, open>>) =>
             \E t \in Tasks :
                /\ mu = t /\ mu' = t
                /\ \A s \in Tasks \ {t} : call'[s] = call[s]]_vars

\* C31 witness: a CloseIdleConnections holds the mutex with the channel
\* closed and a connection still queued, while the Put of another goroutine
\* waits at Lock
C31_Witness ==
    /\ chClosed
    /\ conns /= <<>>
    /\ \E t \in Conns : call[t].op = "Put" /\ call[t].at = "lock"

(********************* dispatches and the middleware list ******************)
\* the middleware that ran around a handler, outermost first
Wrappers(events) ==
    LET before == SelectSeq(events, LAMBDA e : e[2] = "before")
    IN [i \in DOMAIN before |-> before[i][1]]

\* C32: HandleRequest composes the chain on every call from the middleware
\* list as it is then, and changes neither the route table nor the list: a
\* dispatch that hits is wrapped by exactly the middleware registered so far
\* and returns the handler's response as the outermost middleware returned
\* it, and a middleware registered with Use after a dispatch is no wrapper of
\* that dispatch but is one of the next.
C32_ComposedPerCall ==
    /\ [](/\ (Dispatched /\ RegistrationsOf(request.Method, request.Path) /= {}) =>
                /\ Wrappers(routed.events) = router.middleware
                /\ routed.resp = CallHandler(router.routes[request.Method][request.Path],
                                             request)
          /\ earlier.events /= <<>> =>
                /\ Len(Wrappers(earlier.events)) < Len(router.middleware)
                /\ Wrappers(earlier.events)
                      = SubSeq(router.middleware, 1, Len(Wrappers(earlier.events))))
    /\ [][request' /= NoRequest => (router' = router /\ registered' = registered)]_vars

\* C32 witness: a request was dispatched under middleware [A], B was
\* registered, and the same request dispatched again ran under [A, B]
C32_Witness ==
    /\ earlier.req = request
    /\ Wrappers(earlier.events) = <<"A">>
    /\ router.middleware = <<"A", "B">>
    /\ Wrappers(routed.events) = <<"A", "B">>
    /\ routed.resp = earlier.resp

\* C38: on a route miss no middleware runs, however many are registered:
\* HandleRequest returns the 404 response and neither a middleware nor a
\* handler has made a step.
C38_MissSkipsMiddleware ==
    (Dispatched /\ RegistrationsOf(request.Method, request.Path) = {}) =>
       /\ routed.events = <<>>
       /\ Wrappers(routed.events) = <<>>
       /\ routed.resp = NotFoundResponse

\* C38 witness: a router with two middleware and a route answered a request
\* for another pair with the 404 response, with no step of a middleware
C38_Witness ==
    /\ Dispatched
    /\ Len(router.middleware) = 2
    /\ registered /= <<>>
    /\ RegistrationsOf(request.Method, request.Path) = {}
    /\ routed.events = <<>>
    /\ routed.resp.StatusCode = 404

(************************ one request per connection ***********************)
\* C33: a handling task reads from its connection at most once, parses and
\* dispatches at most one request and writes at most one response; once it
\* has read, no further read is possible, and once it has written, no
\* further write, so requests are neither pipelined nor handled side by side
\* on one connection.
C33_OneRequestPerConnection ==
    \A c \in Conns :
       /\ Len(Events(c, "read")) <= 1
       /\ Len(Events(c, "parse")) <= 1
       /\ Len(Events(c, "dispatch")) <= 1
       /\ Len(Events(c, "write")) <= 1
       /\ Events(c, "read") /= <<>> => ~ENABLED Read(c)
       /\ Events(c, "write") /= <<>> =>
             ~ENABLED WriteResponse(c) /\ ~ENABLED HandleHTTPError(c) /\ ~ENABLED Dispatch(c)
       /\ pc[c] = "idle" => hist[c] = <<>>

\* C33 witness: both tasks have ended, each after one read and one write, one
\* with the dispatched response and one with the 400
C33_Witness ==
    /\ \A c \in Conns :
          pc[c] = "done" /\ Len(Events(c, "read")) = 1 /\ Len(Events(c, "write")) = 1
    /\ Events(1, "write")[1].code = OK
    /\ Events(2, "write")[1].code = BadRequest

(************************** Put after the drain ****************************)
\* C34: CloseIdleConnections leaves the pool usable: when the shutdown drain
\* has returned, the channel of the pool is a fresh open one, and the Put of
\* a handling task that ends after that can be made, does not panic, appends
\* its connection to the idle queue and closes nothing; the connection then
\* stays queued and open.
C34_PutAfterDrain ==
    /\ [](mainPc = "drained" =>
             /\ ~chClosed
             /\ \A c \in Conns :
                   /\ (Running /\ pc[c] = "put" /\ call[c].at = "body") => ENABLED PutBody(c)
                   /\ (Running /\ pc[c] = "put" /\ call[c].at = "lock" /\ mu = NoTask)
                          => ENABLED PutLock(c)
                   /\ ~call[c].panic
                   /\ Queued(c) = 1 => /\ open[c]
                                       /\ pc[c] \in {"put", "done"}
                                       /\ call[c].at \in {"unlock", "none"})
    /\ [][\A c \in Conns :
            (mainPc = "drained" /\ pc[c] = "put" /\ call[c].at = "body"
                /\ call'[c].at = "unlock") =>
               /\ conns' = Append(conns, c)
               /\ open' = open
               /\ ~call'[c].panic]_vars

\* C34 witness: the drain closed connection 1, which was idle, and returned;
\* the task of connection 2 ended after that, and connection 2 is queued and
\* open
C34_Witness ==
    /\ mainPc = "drained"
    /\ ~open[1]
    /\ pc[2] = "done"
    /\ conns = <<2>>
    /\ open[2]

(************************* the idle queue's entries ************************)
\* C35: in every reachable state of the server, a connection in the idle
\* queue has not been closed by the server, is not held by a handling task
\* that is still in flight (its task is past the send of its deferred Put),
\* and is in the queue once.
C35_QueuedIsIdle ==
    \A i \in DOMAIN conns :
       LET c == conns[i] IN
          /\ c \in Conns
          /\ open[c]
          /\ ~InFlight(c)
          /\ pc[c] \in {"put", "done"}
          /\ pc[c] = "put" => call[c].at = "unlock"
          /\ Queued(c) = 1

\* C35 witness: connection 1 is queued and open while the task of connection 2
\* is still handling its request
C35_Witness ==
    /\ conns = <<1>>
    /\ open[1]
    /\ pc[1] = "done"
    /\ pc[2] = "dispatch"
    /\ mainPc = "wait"

(****************************** the deadline *******************************)
\* C36: each connection gets one deadline: conn.SetDeadline is the first step
\* of its task, before the read, and is never called again, and the deadline
\* is never extended or cleared; it covers the read and the writes alike: when
\* it has passed, the read has failed with the timeout and every write made
\* after that fails too.
C36_OneDeadline ==
    /\ [](\A c \in Conns :
            /\ Len(Events(c, "deadline")) <= 1
            /\ pc[c] \in {"idle", "start"} => deadline[c] = "none" /\ hist[c] = <<>>
            /\ pc[c] \notin {"idle", "start"} =>
                  /\ hist[c] /= <<>> /\ hist[c][1].op = "deadline"
                  /\ deadline[c] /= "none"
                  /\ ~ENABLED SetDeadline(c)
            /\ deadline[c] = "expired" =>
                  /\ rd[c].err = "timeout"
                  /\ \A i \in DOMAIN hist[c] : hist[c][i].op \in {"read", "write"} => ~hist[c][i].ok
                  /\ pc[c] \in {"write", "errWrite"} => WriteResults(c) = {FALSE})
    /\ [][\A c \in Conns :
            /\ deadline[c] = "armed" => deadline'[c] \in {"armed", "expired"}
            /\ deadline[c] = "expired" => deadline'[c] = "expired"
            /\ deadline'[c] = "expired" /\ deadline[c] /= "expired" =>
                  pc[c] = "read" /\ rd'[c].err = "timeout"]_vars

\* C36 witness: the read of connection 1 ran into the deadline, the 408 was
\* written under the same deadline and failed; connection 2 was served under
\* its deadline, which is still the one set at the start
C36_Witness ==
    /\ deadline[1] = "expired"
    /\ pc[1] = "done"
    /\ Len(Events(1, "write")) = 1
    /\ Events(1, "write")[1] = Ev("write", StatusRequestTimeout, FALSE)
    /\ deadline[2] = "armed"
    /\ pc[2] = "done"
    /\ Len(Events(2, "write")) = 1
    /\ Events(2, "write")[1].ok

(********************** the server never calls Get *************************)
\* C37: no task of the server calls Get, so a connection queued by Put leaves
\* the idle queue only by a turn of the range loop of main's
\* CloseIdleConnections, which closes it; as long as it is queued the server
\* does not read from it, write to it or close it.
C37_NoGet ==
    /\ [](\A t \in Tasks : call[t].op /= "Get")
    /\ [][\A c \in Conns :
            Queued(c) >= 1 =>
               /\ hist'[c] = hist[c]
               /\ rd'[c] = rd[c]
               /\ pc'[c] \in {pc[c], "done"}
               /\ ~(open'[c] /\ \E i \in DOMAIN conns' : conns'[i] = c) =>
                     /\ mu = 0 /\ call[0].op = "Close" /\ call[0].at = "range"
                     /\ c = Head(conns) /\ conns' = Tail(conns)
                     /\ ~open'[c]]_vars

\* C37 witness: connection 1 was served and queued, stayed queued and open
\* while connection 2 was served and queued behind it, and the shutdown is
\* in its range loop, where it has taken connection 1 out and closed it
C37_Witness ==
    /\ mainPc = "draining" /\ call[0].at = "range"
    /\ conns = <<2>>
    /\ ~open[1] /\ open[2]
    /\ pc[1] = "done" /\ pc[2] = "done"
    /\ Len(Events(1, "write")) = 1 /\ Len(Events(2, "write")) = 1

(************************** end of stream on read **************************)
\* C39: a read that returns io.EOF is not handled as a read error: the task
\* goes on to ParseRequest with the bytes read. When the peer closed before
\* sending anything these are no bytes, ParseRequest fails on them, and the
\* task ends on the parse-failure path: no dispatch, one attempt to write a
\* 400 response, then the release.
C39_EOFGoesToParse ==
    \A c \in Conns :
       rd[c].err = "EOF" =>
          LET h == Steps(c) IN
             /\ pc[c] \in {"parse", "errWrite", "put", "done"}
             /\ Did(h, "read", TRUE)
             /\ ParseRequest(rd[c].data).err /= ""
             /\ (Running /\ pc[c] = "parse") => ENABLED Parse(c)
             /\ pc[c] /= "parse" => Did(h, "parse", FALSE)
             /\ pc[c] = "errWrite" =>
                   /\ resp[c].StatusCode = BadRequest
                   /\ Running => ENABLED HandleHTTPError(c)
             /\ pc[c] \in {"put", "done"} =>
                   /\ [i \in 1..Len(h) |-> h[i].op]
                         = <<"deadline", "read", "parse", "write", "put">>
                   /\ h[4].code = BadRequest
                   /\ ~panicking[c]

\* C39 witness: the peer of connection 1 closed without sending a byte; the
\* task has written the 400 response, has released the connection and ended
C39_Witness ==
    /\ rd[1] = [data |-> <<>>, err |-> "EOF"]
    /\ pc[1] = "done"
    /\ Events(1, "write") = <<Ev("write", BadRequest, TRUE)>>
    /\ Events(1, "dispatch") = <<>>
    /\ conns = <<1>>

(*************************** task termination ******************************)
\* the task of c has ended and has released its connection with its Put
Released(c) == pc[c] = "done" /\ Len(Events(c, "put")) = 1

\* Every started task ends with its Put unless the process ends first: the
\* read and the write return by the deadline, the mutex of the pool is held
\* for finitely many steps, and Put's select has a default branch.
TaskEndsUnlessProcessEnds ==
    \A c \in Conns : (pc[c] = "start") ~> (Released(c) \/ ~Running)

\* C40: provided every handler and middleware call returns, the handling task
\* of every accepted connection eventually ends and releases its connection.
C40_TaskTerminates ==
    \A c \in Conns : (pc[c] = "start") ~> Released(c)

=============================================================================
